---------------------------- MODULE Spec2Model ----------------------------
(***************************************************************************)
(* Helios Core: the IV-curve solver (backend/tools/solve_iv_curve.py), the *)
(* analysis orchestration around it and the determinism fingerprint.       *)
(*                                                                         *)
(* Numbers.  The program computes in float64.  The model computes in       *)
(* integers on a fixed grid of units:                                      *)
(*   - temperature in kelvin, thermal voltage Vt = k*T/q with k/q = 1, so  *)
(*     one voltage unit is the thermal voltage of one kelvin (86 uV);      *)
(*   - currents, resistances and fit parameters in grid units;             *)
(*   - float division is Quot (truncating), exp is ExpS (a bounded,        *)
(*     monotone power of two of the clipped argument);                     *)
(*   - NaN, Inf and a float field's None are integers outside the grid.    *)
(* Python dicts are functions from key strings; None, where a string or an *)
(* object is expected, is the string "None".                               *)
(***************************************************************************)
EXTENDS Integers, Sequences, FiniteSets, TLC

(***************************************************************************)
(* State.  One call at a time runs through an entry path:                  *)
(*   pc   where the call is (idle, extract, solve, validated, global_done, *)
(*        local_done, solved, done)                                        *)
(*   req  the call's arguments and its environment (clock, measurement id) *)
(*   loc  the locals of solve_iv_curve set before the optimizers run       *)
(*   de   the call made to differential_evolution and its result           *)
(*   lm   the call made to least_squares and its result                    *)
(*   out  what solve_iv_curve returned or raised                           *)
(*   ret  what the entry path's caller received                            *)
(*   db   the rows of the analyses table                                   *)
(*   ref  the request and outcome of the call completed before this one    *)
(* Beside it:                                                              *)
(*   newton  a call of a diode evaluator, pass by pass                     *)
(*   report  a DiagnosticReport object and what generate_report returned   *)
(*   resp    the HTTP response of the stateless analyze endpoint           *)
(*   thr     the calls of solve_iv_curve running in concurrent threads     *)
(*   shared  what the threads share: the module-level configuration and    *)
(*           the system's entropy source                                   *)
(***************************************************************************)
VARIABLES pc, req, loc, de, lm, out, ret, db, ref, newton, report, resp, thr, shared,
          tickets, qop

\* the state of one call through an entry path
solverVars == <<pc, req, loc, de, lm, out, ret, db, ref>>

\* the ticket queue: the rows of the tickets table, and the operation each
\* client of the queue service is in
queueVars == <<tickets, qop>>

\* the state of the other components
aux == <<newton, report, resp, thr, shared, queueVars>>

vars == <<pc, req, loc, de, lm, out, ret, db, ref, newton, report, resp, thr, shared,
          tickets, qop>>

None == "None"
\* Optional[T] where T is an object: None or a value
Nothing == <<>>
Some(v) == <<v>>
NoneF == -(2^30)
NaN == 2^24
Inf == 2^24 + 1

(***************************************************************************)
(* Arithmetic helpers (numpy element-wise operations on arrays).           *)
(***************************************************************************)
Abs(x) == IF x < 0 THEN -x ELSE x

Sign(x) == IF x > 0 THEN 1 ELSE IF x < 0 THEN -1 ELSE 0

\* float division a / b on the integer grid (b # 0), truncating
Quot(a, b) == Sign(a) * Sign(b) * (Abs(a) \div Abs(b))

Clip(x, lo, hi) == IF x < lo THEN lo ELSE IF x > hi THEN hi ELSE x

\* the one element of a singleton set.  {e(v) : v \in {x}} evaluates x once and
\* binds v to its value: a local variable assigned once and read many times
The(S) == CHOOSE r \in S : TRUE

\* an array of n elements held as a tuple of computed values
Array(len, elems) == SubSeq(elems, 1, len)

RECURSIVE SumSeq(_)
SumSeq(s) == IF s = <<>> THEN 0 ELSE Head(s) + SumSeq(Tail(s))

Max(a, b) == IF a >= b THEN a ELSE b

RECURSIVE MaxSeq(_)
MaxSeq(s) == IF Len(s) = 1 THEN s[1] ELSE Max(s[1], MaxSeq(Tail(s)))

SumSq(s) == SumSeq(Array(Len(s), [k \in 1..Len(s) |-> s[k] * s[k]]))

\* integer square root
RECURSIVE ISqrtBetween(_, _, _)
\* the largest r in lo..hi with r * r <= x, by bisection
ISqrtBetween(x, lo, hi) ==
    IF lo >= hi THEN lo
    ELSE IF ((lo + hi + 1) \div 2) * ((lo + hi + 1) \div 2) <= x
         THEN ISqrtBetween(x, (lo + hi + 1) \div 2, hi)
         ELSE ISqrtBetween(x, lo, (lo + hi + 1) \div 2 - 1)

ISqrt(x) == ISqrtBetween(x, 0, 46340)

\* not np.isnan(x) and not np.isinf(x)
\* a finiteness test that knows NaN only
IsNotNaN(x) == x # NaN

IsFinite(x) == x # NaN /\ x # Inf

AllFinite(s) == \A k \in 1..Len(s) : IsFinite(s[k])

(***************************************************************************)
(* Physical constants and the diode models.                                *)
(***************************************************************************)
K_BOLTZMANN == 1
Q_ELECTRON == 1
EXP_CLIP == 50
NEWTON_MAX_ITER == 50
\* 1e-12 in the source: below the grid's resolution, so "no change"
NEWTON_TOL == 1
\* the default T_k of both evaluators and T_STC
T_STC == 298

\* exp of an argument already clipped to [-EXP_CLIP, EXP_CLIP]
ExpS(x) == IF x < 0 THEN 0 ELSE 2^(x \div 5)

\* np.max(np.abs(I_new - I))
MaxAbsDiff(a, b) == MaxSeq(Array(Len(a), [k \in 1..Len(a) |-> Abs(a[k] - b[k])]))

\* one Newton update of the one-diode equation, element-wise
OneDiodeStep(V, I, I_ph, I_0, n, R_s, R_sh, Vt) ==
    Array(Len(V), [k \in 1..Len(V) |->
        LET exponential_term == Clip(Quot(V[k] + I[k] * R_s, n * Vt), -EXP_CLIP, EXP_CLIP)
            exp_val == ExpS(exponential_term)
            f == I_ph - I_0 * (exp_val - 1) - Quot(V[k] + I[k] * R_s, R_sh) - I[k]
            df == -Quot(1000 * I_0 * exp_val * R_s, n * Vt) - Quot(1000 * R_s, R_sh) - 1000
        IN  I[k] - Quot(1000 * f, df)])

\* one pass of the loop body on the loop's state: the current array I, the
\* passes made, and whether the loop has left through `break`
OneDiodePass(V, st, I_ph, I_0, n, R_s, R_sh, Vt) ==
    The({IF MaxAbsDiff(I_new, st.I) < NEWTON_TOL
         THEN [I |-> st.I, iterations |-> st.iterations + 1, broke |-> TRUE]
         ELSE [I |-> I_new, iterations |-> st.iterations + 1, broke |-> FALSE] :
         I_new \in {OneDiodeStep(V, st.I, I_ph, I_0, n, R_s, R_sh, Vt)}})

RECURSIVE OneDiodeLoop(_, _, _, _, _, _, _, _, _)
\* `passes` passes of `for iteration in range(...)`, made half by half
OneDiodeLoop(V, st, I_ph, I_0, n, R_s, R_sh, Vt, passes) ==
    IF passes <= 0 \/ st.broke THEN st
    ELSE IF passes = 1 THEN OneDiodePass(V, st, I_ph, I_0, n, R_s, R_sh, Vt)
    ELSE The({OneDiodeLoop(V, half, I_ph, I_0, n, R_s, R_sh, Vt, passes - passes \div 2) :
              half \in {OneDiodeLoop(V, st, I_ph, I_0, n, R_s, R_sh, Vt, passes \div 2)}})

\* the state the Newton loop ends in
OneDiodeRun(V, I_ph, I_0, n, R_s, R_sh, T_k) ==
    OneDiodeLoop(V, [I |-> Array(Len(V), [k \in 1..Len(V) |-> 0]), iterations |-> 0,
                     broke |-> FALSE],
                 I_ph, I_0, n, R_s, R_sh, Quot(K_BOLTZMANN * T_k, Q_ELECTRON),
                 NEWTON_MAX_ITER)

one_diode_equation(V, I_ph, I_0, n, R_s, R_sh, T_k) ==
    OneDiodeRun(V, I_ph, I_0, n, R_s, R_sh, T_k).I

TwoDiodeStep(V, I, I_ph, I_01, n1, I_02, n2, R_s, R_sh, Vt) ==
    Array(Len(V), [k \in 1..Len(V) |->
        LET V_j == V[k] + I[k] * R_s
            exp1 == ExpS(Clip(Quot(V_j, n1 * Vt), -EXP_CLIP, EXP_CLIP))
            exp2 == ExpS(Clip(Quot(V_j, n2 * Vt), -EXP_CLIP, EXP_CLIP))
            f == I_ph - I_01 * (exp1 - 1) - I_02 * (exp2 - 1) - Quot(V_j, R_sh) - I[k]
            df == -Quot(1000 * I_01 * exp1 * R_s, n1 * Vt)
                  - Quot(1000 * I_02 * exp2 * R_s, n2 * Vt) - Quot(1000 * R_s, R_sh) - 1000
        IN  I[k] - Quot(1000 * f, df)])

TwoDiodePass(V, st, I_ph, I_01, n1, I_02, n2, R_s, R_sh, Vt) ==
    The({IF MaxAbsDiff(I_new, st.I) < NEWTON_TOL
         THEN [I |-> st.I, iterations |-> st.iterations + 1, broke |-> TRUE]
         ELSE [I |-> I_new, iterations |-> st.iterations + 1, broke |-> FALSE] :
         I_new \in {TwoDiodeStep(V, st.I, I_ph, I_01, n1, I_02, n2, R_s, R_sh, Vt)}})

RECURSIVE TwoDiodeLoop(_, _, _, _, _, _, _, _, _, _, _)
TwoDiodeLoop(V, st, I_ph, I_01, n1, I_02, n2, R_s, R_sh, Vt, passes) ==
    IF passes <= 0 \/ st.broke THEN st
    ELSE IF passes = 1 THEN TwoDiodePass(V, st, I_ph, I_01, n1, I_02, n2, R_s, R_sh, Vt)
    ELSE The({TwoDiodeLoop(V, half, I_ph, I_01, n1, I_02, n2, R_s, R_sh, Vt,
                           passes - passes \div 2) :
              half \in {TwoDiodeLoop(V, st, I_ph, I_01, n1, I_02, n2, R_s, R_sh, Vt,
                                     passes \div 2)}})

TwoDiodeRun(V, I_ph, I_01, n1, I_02, n2, R_s, R_sh, T_k) ==
    TwoDiodeLoop(V, [I |-> Array(Len(V), [k \in 1..Len(V) |-> 0]), iterations |-> 0,
                     broke |-> FALSE],
                 I_ph, I_01, n1, I_02, n2, R_s, R_sh, Quot(K_BOLTZMANN * T_k, Q_ELECTRON),
                 NEWTON_MAX_ITER)

two_diode_equation(V, I_ph, I_01, n1, I_02, n2, R_s, R_sh, T_k) ==
    TwoDiodeRun(V, I_ph, I_01, n1, I_02, n2, R_s, R_sh, T_k).I

(***************************************************************************)
(* Locked configuration (backend/config.py).  Values the model never       *)
(* computes with are kept as the text of the Python literal.               *)
(***************************************************************************)
GLOBAL_RNG_SEED == 42

DIFFERENTIAL_EVOLUTION_CONFIG ==
    [strategy |-> "best1bin", mutation |-> "(0.5, 1.0)", recombination |-> "0.7",
     popsize |-> 15, seed |-> GLOBAL_RNG_SEED, updating |-> "deferred",
     workers |-> 1, polish |-> FALSE]

\* {**DIFFERENTIAL_EVOLUTION_CONFIG, "popsize": 5, "maxiter": 100, "tol": 0.05}
EXPLORATION_DE_CONFIG ==
    [k \in DOMAIN DIFFERENTIAL_EVOLUTION_CONFIG \cup {"maxiter", "tol"} |->
        IF k = "popsize" THEN 5
        ELSE IF k = "maxiter" THEN 100
        ELSE IF k = "tol" THEN "0.05"
        ELSE DIFFERENTIAL_EVOLUTION_CONFIG[k]]

LEVENBERG_MARQUARDT_CONFIG ==
    [method |-> "lm", xtol |-> "1e-10", ftol |-> "1e-10", gtol |-> "1e-10",
     max_nfev |-> 10000]

\* {k: v for k, v in d.items() if k in keys}
FilterKeys(d, keys) == [k \in DOMAIN d \cap keys |-> d[k]]

\* {**a, **b}
Merge(a, b) == [k \in DOMAIN a \cup DOMAIN b |-> IF k \in DOMAIN b THEN b[k] ELSE a[k]]

\* k.replace("lm_", "")
StripLm(k) == CASE k = "lm_xtol" -> "xtol"
                [] k = "lm_ftol" -> "ftol"
                [] k = "lm_gtol" -> "gtol"
                [] k = "lm_max_nfev" -> "max_nfev"
                [] OTHER -> k

\* {k.replace("lm_", ""): v for k, v in d.items() if k in keys}
FilterStripLm(d, keys) ==
    LET kept == DOMAIN d \cap keys
    IN  [k \in {StripLm(j) : j \in kept} |-> d[CHOOSE j \in kept : StripLm(j) = k]]

(***************************************************************************)
(* Entities (backend/models/entities.py).                                  *)
(***************************************************************************)
\* the field defaults of the pydantic model SolverConfig
SolverConfigDefaults ==
    [solver_seed |-> 42, de_strategy |-> "best1bin", de_mutation |-> "(0.5, 1.0)",
     de_recombination |-> "0.7", de_popsize |-> 15,
     lm_xtol |-> "1e-10", lm_ftol |-> "1e-10", lm_gtol |-> "1e-10"]

SolverConfigFields ==
    <<"model_type", "solver_seed", "de_strategy", "de_mutation", "de_recombination",
      "de_popsize", "lm_xtol", "lm_ftol", "lm_gtol">>

\* SolverConfig(**kwargs): a field not given takes its default
SolverConfig(kwargs) ==
    [f \in {SolverConfigFields[j] : j \in 1..Len(SolverConfigFields)} |->
        IF f \in DOMAIN kwargs THEN kwargs[f] ELSE SolverConfigDefaults[f]]

ExtractedParametersFields ==
    <<"j_sc", "v_oc", "ff", "pce", "r_s", "r_sh", "n_ideality", "n2_ideality",
      "i_ph", "i_0", "n_dark", "n_light", "i_0_dark", "r_sh_dark", "r_s_dark",
      "delta_n", "residual_rms">>

\* ExtractedParameters(**kwargs): the optional (float) fields default to None
ExtractedParameters(kwargs) ==
    [f \in {ExtractedParametersFields[j] : j \in 1..Len(ExtractedParametersFields)} |->
        IF f \in DOMAIN kwargs THEN kwargs[f] ELSE NoneF]

\* BaseModel.model_dump(): the fields as (name, value) pairs in declaration order
ModelDump(obj, fields) == [j \in 1..Len(fields) |-> <<fields[j], obj[fields[j]]>>]

(***************************************************************************)
(* Parameter boxes: (lower, upper) per parameter, in grid units.  The      *)
(* source's boxes span many decades; the model keeps their shape (which    *)
(* parameters there are, in which order, and that I_ph may be 0 only in    *)
(* the two-diode box).                                                     *)
(***************************************************************************)
ONE_DIODE_BOUNDS == << <<1, 3>>, <<1, 3>>, <<1, 3>>, <<0, 10>>, <<1000, 3000>> >>

\* defined by the source and used by no function
DARK_DIODE_BOUNDS == << <<1, 3>>, <<1, 3>>, <<0, 10>>, <<1000, 3000>> >>

TWO_DIODE_BOUNDS ==
    << <<0, 3>>, <<1, 3>>, <<1, 3>>, <<1, 3>>, <<1, 5>>, <<0, 10>>, <<1000, 3000>> >>

\* the dark box built inside solve_iv_curve: log10(I_0), n, R_s, R_sh
DarkLogBounds == << <<0, 1>>, <<1, 3>>, <<0, 10>>, <<1000, 3000>> >>

\* uA per A in the source (1e6); the grid's factor
DARK_RESIDUAL_SCALE == 10

(***************************************************************************)
(* Objective functions.  Python binds a module-level name to its last      *)
(* definition: the calls made by _one_diode_cost, _two_diode_cost and the  *)
(* lambdas of solve_iv_curve reach the definitions of lines 354-363, whose *)
(* fourth parameter is T_k.                                                *)
(***************************************************************************)
\* I_measured - I_model, element-wise
Residuals(I_measured, I_model) ==
    Array(Len(I_measured), [k \in 1..Len(I_measured) |-> I_measured[k] - I_model[k]])

one_diode_residuals(params, V, I_measured, T_k) ==
    Residuals(I_measured, one_diode_equation(V, params[1], params[2], params[3],
                                             params[4], params[5], T_k))

two_diode_residuals(params, V, I_measured, T_k) ==
    Residuals(I_measured, two_diode_equation(V, params[1], params[2], params[3],
                                             params[4], params[5], params[6], params[7],
                                             T_k))

\* _one_diode_cost(params, V, I_measured, sm): passes sm on as the fourth argument
one_diode_cost(params, V, I_measured, sm) ==
    SumSq(one_diode_residuals(params, V, I_measured, sm))

two_diode_cost(params, V, I_measured, sm) ==
    SumSq(two_diode_residuals(params, V, I_measured, sm))

\* dark_res(p, v, i, tk, s)
\* (i - (s * im)) * 1e6, element-wise
ScaledResiduals(i, s, im) ==
    Array(Len(i), [k \in 1..Len(i) |-> (i[k] - s * im[k]) * DARK_RESIDUAL_SCALE])

dark_res(p, v, i, tk, s) ==
    ScaledResiduals(i, s, one_diode_equation(v, 0, 10^p[1], p[2], p[3], p[4], tk))

\* the case of a solve: which bounds, cost and residual function it selects
FitCase(measurement_type, model_type) ==
    IF measurement_type = "dark" THEN "dark"
    ELSE IF model_type = "OneDiode" THEN "one"
    ELSE "two"

CaseBounds(case) ==
    CASE case = "dark" -> DarkLogBounds
      [] case = "one" -> ONE_DIODE_BOUNDS
      [] OTHER -> TWO_DIODE_BOUNDS

\* residual_func(p, v, i) of the case, closed over T_k and sm
residual_func(case, T_k, sm, p, v, i) ==
    CASE case = "dark" -> dark_res(p, v, i, T_k, sm)
      [] case = "one" -> one_diode_residuals(p, v, i, sm)
      [] OTHER -> two_diode_residuals(p, v, i, sm)

\* cost_func(p, v, i) of the case, closed over T_k and sm
cost_func(case, T_k, sm, p, v, i) ==
    CASE case = "dark" -> SumSq(dark_res(p, v, i, T_k, sm))
      [] case = "one" -> one_diode_cost(p, v, i, sm)
      [] OTHER -> two_diode_cost(p, v, i, sm)

(***************************************************************************)
(* scipy.optimize, at the level of its contract.  A float parameter takes  *)
(* GridLevels + 1 values per box side.                                     *)
(***************************************************************************)
GridLevels == 1

GridStepOf(b) == IF b[2] - b[1] < GridLevels THEN 1 ELSE (b[2] - b[1]) \div GridLevels

\* the pseudo-random draw of the generator seeded with `seed`
Draw(seed, k, j) == ((seed + 1) * (7 * k + 3 * j + 1) * 1103 + 12345) % 1021

\* member k of the initial population: a point of the box
Member(bounds, seed, k) ==
    Array(Len(bounds), [j \in 1..Len(bounds) |->
        LET b == bounds[j]
            levels == (b[2] - b[1]) \div GridStepOf(b)
        IN  b[1] + GridStepOf(b) * (Draw(seed, k, j) % (levels + 1))])

\* a generator seeded by the system's entropy whatever the keyword
EntropySeed(config, entropy) == entropy

\* the seed of the generator: the keyword given, or the system's entropy
DeSeed(config, entropy) ==
    IF "seed" \in DOMAIN config /\ config["seed"] # NoneF THEN config["seed"] ELSE entropy

\* the members the model's generator draws for a popsize: one per 5
SampleSize(popsize) == popsize \div 5

\* the population with its costs
Population(case, T_k, sm, V, I_fit, bounds, seed, popsize) ==
    Array(SampleSize(popsize), [k \in 1..SampleSize(popsize) |->
        The({[x |-> mem, fun |-> cost_func(case, T_k, sm, mem, V, I_fit)] :
             mem \in {Member(bounds, seed, k)}})])

\* the best member: the first of the cheapest
BestMember(pop) ==
    pop[CHOOSE k \in 1..Len(pop) :
            /\ \A j \in 1..Len(pop) : pop[k].fun <= pop[j].fun
            /\ \A j \in 1..(k - 1) : pop[j].fun > pop[k].fun]

\* the relative tolerance of the convergence test, in percent: tol, 0.01 by default
TolPercent(config) == IF "tol" \in DOMAIN config THEN 5 ELSE 1

\* the convergence test of differential_evolution on the population's costs: their
\* spread is within tol times their mean; success is reported only then
Converged(pop, config) ==
    LET costs == Array(Len(pop), [k \in 1..Len(pop) |-> pop[k].fun])
        mean == SumSeq(Array(Len(pop), [k \in 1..Len(pop) |-> Quot(pop[k].fun, Len(pop))]))
    IN  MaxSeq(costs) - BestMember(pop).fun <= TolPercent(config) * Quot(mean, 100)

\* differential_evolution(cost_func, bounds=bounds, args=(V, I_fit), **de_config):
\* the best member of the population the seed generates; an integer seed makes a
\* generator of its own, seed=None draws from the operating system's entropy
differential_evolution(case, T_k, sm, bounds, V, I_fit, config, entropy) ==
    The({[x |-> BestMember(pop).x, fun |-> BestMember(pop).fun,
          success |-> Converged(pop, config)] :
         pop \in {Population(case, T_k, sm, V, I_fit, bounds, DeSeed(config, entropy),
                             config["popsize"])}})

Feasible(x, lb, ub) ==
    /\ Len(lb) = Len(x) /\ Len(ub) = Len(x)
    /\ \A j \in 1..Len(x) : lb[j] <= x[j] /\ x[j] <= ub[j]

\* the points of the box one grid step from x along parameter j
Along(x, j, lb, ub) ==
    {y \in {[x EXCEPT ![j] = x[j] + d * GridStepOf(<<lb[j], ub[j]>>)] : d \in {-1, 1}} :
        Feasible(y, lb, ub)}

\* x with its residual vector fun
Evaluated(case, T_k, sm, V, I_fit, x) ==
    [x |-> x, fun |-> residual_func(case, T_k, sm, x, V, I_fit)]

\* the cost of an evaluated point: the sum of its squared residuals
Cost(point) == SumSq(point.fun)

RECURSIVE Descend(_, _, _, _, _, _, _, _, _, _)
\* one sweep over the parameters from parameter j on: a step along a parameter is
\* taken when it lowers the cost; every parameter tried spends one of nfev
Descend(case, T_k, sm, V, I_fit, lb, ub, at, j, nfev) ==
    IF nfev <= 0 \/ j > Len(at.x) THEN at
    ELSE The({Descend(case, T_k, sm, V, I_fit, lb, ub,
                      IF better = {} THEN at ELSE CHOOSE c \in better :
                                                    \A d \in better : Cost(c) <= Cost(d),
                      j + 1, nfev - 1) :
              better \in {{c \in {Evaluated(case, T_k, sm, V, I_fit, y) :
                                     y \in Along(at.x, j, lb, ub)} : Cost(c) < Cost(at)}}})

\* the defaults of scipy.optimize.least_squares for the keywords not passed
LeastSquaresDefaults ==
    [xtol |-> "1e-08", ftol |-> "1e-08", gtol |-> "1e-08", max_nfev |-> NoneF]

\* the evaluation budget: max_nfev, or 100 per parameter when it is None
MaxNfev(opts, x0) == IF opts["max_nfev"] = NoneF THEN 100 * Len(x0) ELSE opts["max_nfev"]

\* the termination test of least_squares at an evaluated point: no step inside the
\* box lowers the cost; success is reported only then (status > 0)
Stationary(case, T_k, sm, V, I_fit, lb, ub, at) ==
    \A j \in 1..Len(at.x) : \A y \in Along(at.x, j, lb, ub) :
        Cost(Evaluated(case, T_k, sm, V, I_fit, y)) >= Cost(at)

\* least_squares(residual_func, x0=x0, args=(V, I_fit), bounds=(lb, ub), method="trf",
\* **kw): a descent inside the box from x0; raises when x0 is not inside the box
least_squares(case, T_k, sm, x0, V, I_fit, lb, ub, kw) ==
    IF ~Feasible(x0, lb, ub)
    THEN [raised |-> "x0 is infeasible", opts |-> Merge(LeastSquaresDefaults, kw)]
    ELSE The({[raised |-> None, opts |-> Merge(LeastSquaresDefaults, kw), x |-> at.x,
               fun |-> at.fun,
               success |-> Stationary(case, T_k, sm, V, I_fit, lb, ub, at)] :
              at \in {Descend(case, T_k, sm, V, I_fit, lb, ub,
                              Evaluated(case, T_k, sm, V, I_fit, x0), 1,
                              MaxNfev(Merge(LeastSquaresDefaults, kw), x0))}})

(***************************************************************************)
(* Derived metrics of solve_iv_curve, computed from the arrays it was      *)
(* given.  Current density is in 1/1000 of a current unit per area unit,   *)
(* the fill factor in 1/1000.                                              *)
(***************************************************************************)
RECURSIVE Masked(_, _)
\* arr[mask] for a boolean mask
Masked(arr, mask) ==
    IF arr = <<>> THEN <<>>
    ELSE (IF Head(mask) THEN <<Head(arr)>> ELSE <<>>) \o Masked(Tail(arr), Tail(mask))

\* the r-th smallest element of arr
Ranked(arr, r) ==
    CHOOSE v \in {arr[k] : k \in 1..Len(arr)} :
        /\ Cardinality({k \in 1..Len(arr) : arr[k] < v}) < r
        /\ Cardinality({k \in 1..Len(arr) : arr[k] <= v}) >= r

\* twice np.median(arr), for a non-empty arr
MedianTwice(arr) ==
    IF Len(arr) % 2 = 1 THEN 2 * Ranked(arr, (Len(arr) + 1) \div 2)
    ELSE Ranked(arr, Len(arr) \div 2) + Ranked(arr, Len(arr) \div 2 + 1)

\* (V > 0) & (V < 0.9 * np.max(V))
potential_power_mask(V) ==
    Array(Len(V), [k \in 1..Len(V) |-> V[k] > 0 /\ 10 * V[k] < 9 * MaxSeq(V)])

\* np.any(potential_power_mask) and np.median(I[potential_power_mask]) < 0
NegativeConvention(V, I) ==
    LET sel == Masked(I, potential_power_mask(V))
    IN  sel # <<>> /\ MedianTwice(sel) < 0

\* np.argmin(np.abs(V)): the first index of the smallest |V|
ArgMinAbs(V) ==
    CHOOSE k \in 1..Len(V) :
        /\ \A j \in 1..Len(V) : Abs(V[k]) <= Abs(V[j])
        /\ \A j \in 1..(k - 1) : Abs(V[j]) > Abs(V[k])

\* a short-circuit density read from the fitted vector instead of the raw curve
JscFitted(V, I, cell_area_cm2) == Abs(Quot(lm.result.x[1] * 1000, cell_area_cm2))

\* abs(float(J[v_zero_idx])) with J = I / cell_area_cm2 * 1000
Jsc(V, I, cell_area_cm2) == Abs(Quot(I[ArgMinAbs(V)] * 1000, cell_area_cm2))

\* np.where(np.diff(np.sign(I)))[0], as 1-based indices
sign_changes(I) == {k \in 1..(Len(I) - 1) : Sign(I[k + 1]) - Sign(I[k]) # 0}

\* a fallback that takes the first sample of the sweep
VocFirst(V) == Abs(V[1])

\* the else branch of the Voc computation
VocFallback(V) == Abs(V[Len(V)])

\* an interpolation at the last pair of samples whose currents differ in sign
VocLastCrossing(V, I) ==
    IF sign_changes(I) # {}
    THEN LET idx == CHOOSE k \in sign_changes(I) : \A j \in sign_changes(I) : k >= j
         IN  Abs(V[idx] - Quot(I[idx] * (V[idx + 1] - V[idx]), I[idx + 1] - I[idx]))
    ELSE VocFallback(V)

\* the Voc computation (lines 292-303); no statement of it can raise for a
\* non-empty V: the two currents of a sign change differ
Voc(V, I) ==
    IF sign_changes(I) # {}
    THEN LET idx == CHOOSE k \in sign_changes(I) : \A j \in sign_changes(I) : k <= j
         IN  Abs(V[idx] - Quot(I[idx] * (V[idx + 1] - V[idx]), I[idx + 1] - I[idx]))
    ELSE VocFallback(V)

\* a maximum power taken over every sample of the curve
PmppUnrestricted(V, I, v_oc) ==
    MaxSeq(Array(Len(V), [k \in 1..Len(V) |-> Abs(V[k] * I[k])]))

\* p_mpp: the largest |V * I| of the power region, or of the curve
Pmpp(V, I, v_oc) ==
    LET jsc_sign == IF Abs(I[ArgMinAbs(V)]) > 0 THEN Sign(I[ArgMinAbs(V)]) ELSE 1
        mask == Array(Len(V), [k \in 1..Len(V) |->
                    V[k] >= 0 /\ 100 * V[k] <= 105 * v_oc /\ Sign(I[k]) = jsc_sign])
        power == Array(Len(V), [k \in 1..Len(V) |-> Abs(V[k] * I[k])])
    IN  IF Masked(power, mask) # <<>> THEN MaxSeq(Masked(power, mask)) ELSE MaxSeq(power)

\* ff = p_mpp / (v_oc * i_sc_converted), or 0.0
FillFactor(p_mpp, v_oc, j_sc, cell_area_cm2) ==
    LET i_sc_converted == Quot(j_sc * cell_area_cm2, 1000)
    IN  IF v_oc > 0 /\ i_sc_converted > 0
        THEN Quot(1000 * p_mpp, v_oc * i_sc_converted) ELSE 0

\* pce = (p_mpp / p_in_total_w) * 100.0 with p_in_total_w = 100 * area / 1000
Pce(p_mpp, cell_area_cm2) ==
    IF cell_area_cm2 > 0 THEN Quot(p_mpp * 1000, cell_area_cm2) ELSE 0

\* float(np.sqrt(np.mean(fun**2)))
ResidualRms(fun) == ISqrt(Quot(SumSq(fun), Len(fun)))

(***************************************************************************)
(* The determinism fingerprint (backend/tools/manage_storage.py).  A dict  *)
(* is a sequence of (key, value) pairs in insertion order.                 *)
(***************************************************************************)
\* the keys of the hashed dicts in the order Python compares strings
KeyOrder ==
    <<"config", "de_mutation", "de_popsize", "de_recombination",
      "de_strategy", "delta_n", "ff", "i_0", "i_0_dark", "i_ph", "j_sc",
      "lm_ftol", "lm_gtol", "lm_xtol", "model_type", "n2_ideality",
      "n_dark", "n_ideality", "n_light", "parameters", "pce", "r_s",
      "r_s_dark", "r_sh", "r_sh_dark", "residual_rms", "solver_seed",
      "v_oc">>

RECURSIVE SortedFrom(_, _)
\* the pairs whose key is KeyOrder[r] or a later one, in key order
SortedFrom(pairs, r) ==
    IF r > Len(KeyOrder) THEN <<>>
    ELSE SelectSeq(pairs, LAMBDA pr : pr[1] = KeyOrder[r]) \o SortedFrom(pairs, r + 1)

\* json.dumps(d, sort_keys=True) of a flat dict: its pairs in key order
SortKeys(pairs) == SortedFrom(pairs, 1)

\* hashlib.sha256(text).hexdigest(): a digest names its text and nothing else
Sha256(text) == <<"sha256", text>>

\* a digest of the dicts as they were built, without sort_keys
HashInsertionOrder(parameters, config) ==
    Sha256(<< <<"parameters", parameters>>, <<"config", config>> >>)

\* compute_result_hash(parameters, config)
compute_result_hash(parameters, config) ==
    Sha256(SortKeys(<< <<"parameters", SortKeys(parameters)>>,
                       <<"config", SortKeys(config)>> >>))

(***************************************************************************)
(* solve_iv_curve, step by step.                                           *)
(***************************************************************************)
\* 273.15 in the source
KelvinOffset == 273

\* SolverConfig(model_type=..., solver_seed=GLOBAL_RNG_SEED, **{...}, **{...})
BuildSolverConfig(model_type) ==
    SolverConfig(Merge(Merge([model_type |-> model_type, solver_seed |-> GLOBAL_RNG_SEED],
        FilterKeys(DIFFERENTIAL_EVOLUTION_CONFIG,
                   {"de_strategy", "de_mutation", "de_recombination", "de_popsize"})),
        FilterKeys(LEVENBERG_MARQUARDT_CONFIG, {"lm_xtol", "lm_ftol", "lm_gtol"})))

\* EXPLORATION_DE_CONFIG if mode == AnalysisMode.EXPLORATION else ...
SelectDeConfig(mode) ==
    IF mode = "Exploration" THEN EXPLORATION_DE_CONFIG ELSE DIFFERENTIAL_EVOLUTION_CONFIG

\* the keyword arguments unpacked into the least_squares call
LmKwargs ==
    FilterStripLm(LEVENBERG_MARQUARDT_CONFIG, {"lm_xtol", "lm_ftol", "lm_gtol", "lm_max_nfev"})

\* the lower bounds of the light one-diode box whatever the case
OneDiodeLowerBounds(bounds) ==
    Array(Len(ONE_DIODE_BOUNDS), [j \in 1..Len(ONE_DIODE_BOUNDS) |-> ONE_DIODE_BOUNDS[j][1]])

\* lb = [b[0] for b in bounds]
LowerBounds(bounds) == Array(Len(bounds), [j \in 1..Len(bounds) |-> bounds[j][1]])

\* ub = [b[1] for b in bounds]
UpperBounds(bounds) == Array(Len(bounds), [j \in 1..Len(bounds) |-> bounds[j][2]])

\* an unpacking that reads the first dark parameter as the saturation current itself
UnpackLinear(case, params) ==
    CASE case = "dark" ->
            [I_ph |-> 0, I_0 |-> params[1], n |-> params[2], n2 |-> NoneF,
             R_s |-> params[3], R_sh |-> params[4]]
      [] case = "one" ->
            [I_ph |-> params[1], I_0 |-> params[2], n |-> params[3], n2 |-> NoneF,
             R_s |-> params[4], R_sh |-> params[5]]
      [] OTHER ->
            [I_ph |-> params[1], I_0 |-> params[2], n |-> params[3],
             I_02 |-> params[4], n2 |-> params[5],
             R_s |-> params[6], R_sh |-> params[7]]

\* the fitted quantities unpacked from lm_result.x (lines 270-282)
Unpack(case, params) ==
    CASE case = "dark" ->
            [I_ph |-> 0, I_0 |-> 10^params[1], n |-> params[2], n2 |-> NoneF,
             R_s |-> params[3], R_sh |-> params[4]]
      [] case = "one" ->
            [I_ph |-> params[1], I_0 |-> params[2], n |-> params[3], n2 |-> NoneF,
             R_s |-> params[4], R_sh |-> params[5]]
      [] OTHER ->
            [I_ph |-> params[1], I_0 |-> params[2], n |-> params[3],
             I_02 |-> params[4], n2 |-> params[5],
             R_s |-> params[6], R_sh |-> params[7]]

\* the ExtractedParameters of lines 284-348
Extract(V, I, cell_area_cm2, measurement_type, fit, fun) ==
    LET j_sc == Jsc(V, I, cell_area_cm2)
        v_oc == Voc(V, I)
        p_mpp == Pmpp(V, I, v_oc)
        dark == measurement_type = "dark"
    IN  ExtractedParameters(
            [j_sc |-> j_sc, v_oc |-> v_oc,
             ff |-> FillFactor(p_mpp, v_oc, j_sc, cell_area_cm2),
             pce |-> Pce(p_mpp, cell_area_cm2),
             r_s |-> fit.R_s * cell_area_cm2, r_sh |-> fit.R_sh * cell_area_cm2,
             n_ideality |-> fit.n, n2_ideality |-> fit.n2,
             i_ph |-> fit.I_ph, i_0 |-> fit.I_0,
             n_dark |-> IF dark THEN fit.n ELSE NoneF,
             i_0_dark |-> IF dark THEN fit.I_0 ELSE NoneF,
             r_s_dark |-> IF dark THEN fit.R_s * cell_area_cm2 ELSE NoneF,
             r_sh_dark |-> IF dark THEN fit.R_sh * cell_area_cm2 ELSE NoneF,
             residual_rms |-> ResidualRms(fun)])

\* _get_base_diagnostic_data (backend/api/diagnostics.py), step 3: the fitted
\* curve reconstructed from stored parameters p at the measurement temperature
I_fitted(model_type, p, V, temperature_c, area) ==
    IF model_type = "OneDiode"
    THEN one_diode_equation(V, p.i_ph, p.i_0, p.n_ideality, Quot(p.r_s, area),
                            Quot(p.r_sh, area), temperature_c + KelvinOffset)
    ELSE two_diode_equation(V, p.i_ph, p.i_0, p.n_ideality, 0,
                            IF p.n2_ideality = NoneF \/ p.n2_ideality = 0
                            THEN 2 ELSE p.n2_ideality,
                            Quot(p.r_s, area), Quot(p.r_sh, area),
                            temperature_c + KelvinOffset)

(***************************************************************************)
(* Inputs.                                                                 *)
(***************************************************************************)
CurveLen == 3

CurrentValues == {-2, 0, 2}

\* a forward sweep from 0, and a reverse sweep that ends below 0
Ascending == Array(CurveLen, [k \in 1..CurveLen |-> 3000 * (k - 1)])

Descending ==
    Array(CurveLen, [k \in 1..CurveLen |-> IF k = CurveLen THEN -3000
                                              ELSE 3000 * (CurveLen - k)])

ZeroCurrent == Array(CurveLen, [k \in 1..CurveLen |-> 0])

Poison(arr, k, bad) == [arr EXCEPT ![k] = bad]

FiniteCurves ==
    {<<sweep, Array(CurveLen, cur)>> :
        sweep \in {Ascending, Descending}, cur \in [1..CurveLen -> CurrentValues]}

NonFiniteCurves ==
    {<<Poison(Ascending, k, bad), ZeroCurrent>> : k \in 1..CurveLen, bad \in {NaN, Inf}}
    \cup {<<Ascending, Poison(ZeroCurrent, k, bad)>> : k \in 1..CurveLen, bad \in {NaN, Inf}}

EmptyCurve == << <<>>, <<>> >>

\* a curve whose current grows along the sweep: its magnitude in the power region
\* exceeds the magnitude at the sample nearest V = 0
RisingCurve == <<Ascending, Array(CurveLen, [k \in 1..CurveLen |-> k])>>

\* a sweep that starts in reverse bias, with a current that changes sign below,
\* around or above V = 0
BiasedSweep == Array(CurveLen, [k \in 1..CurveLen |-> 2000 * (k - 1) - 3000])

ReverseBiasCurves ==
    {<<BiasedSweep, Array(CurveLen, [k \in 1..CurveLen |-> IF k <= j THEN s ELSE -s])>> :
        j \in 1..2, s \in {-2, 2}}

\* a reverse sweep that ends at V = 0, where the current is exactly zero, the current
\* changing sign once before; in both polarities
ReverseSweep == Array(CurveLen, [k \in 1..CurveLen |-> 3000 * (CurveLen - k)])

ZeroShortCircuitCurves ==
    {<<ReverseSweep, Array(CurveLen, [k \in 1..CurveLen |->
                              IF k = CurveLen THEN 0
                              ELSE IF k = CurveLen - 1 THEN s ELSE -s])>> : s \in {-2, 2}}

Paths == {"direct", "persisted", "stateless"}
Areas == {1, 2}
Temperatures == {25, 50}
Modes == {"Reference", "Exploration"}
ModelTypes == {"OneDiode", "TwoDiode"}
MeasurementTypes == {"light", "dark"}

Request(path, curve, area, temp, mode, model_type, measurement_type, id, now) ==
    [path |-> path, V |-> curve[1], I |-> curve[2], cell_area_cm2 |-> area,
     temperature_c |-> temp, mode |-> mode, model_type |-> model_type,
     measurement_type |-> measurement_type, measurement_id |-> id, now |-> now]

\* -x for a float x
Neg(val) == IF IsFinite(val) THEN -val ELSE val

\* -I for an array I
NegArr(arr) == Array(Len(arr), [k \in 1..Len(arr) |-> Neg(arr[k])])

\* a light curve that crosses zero at the end of the sweep, in both conventions
SourceCurve == <<Ascending, Array(CurveLen, [k \in 1..CurveLen |-> IF k < CurveLen THEN 2 ELSE -2])>>

SinkCurve == <<Ascending, NegArr(SourceCurve[2])>>

\* every curve in every case at the reference settings, and the two light curves
\* at every setting
RequestsOn(paths, curves) ==
    {Request(path, curve, 1, 25, "Reference", model_type, measurement_type, "m1", 0) :
        path \in paths, curve \in curves,
        model_type \in ModelTypes, measurement_type \in MeasurementTypes}
    \cup
    {Request(path, curve, area, temp, mode, model_type, measurement_type, "m1", 0) :
        path \in paths, curve \in {SourceCurve, SinkCurve},
        area \in Areas, temp \in Temperatures, mode \in Modes,
        model_type \in ModelTypes, measurement_type \in MeasurementTypes}

Requests ==
    RequestsOn(Paths, FiniteCurves \cup {RisingCurve} \cup ReverseBiasCurves
                      \cup NonFiniteCurves \cup {EmptyCurve})

\* the first of two direct calls of solve_iv_curve
PairRequests == RequestsOn({"direct"}, FiniteCurves \cup ZeroShortCircuitCurves)

SameSettings(r, q) ==
    /\ r.temperature_c = q.temperature_c
    /\ r.mode = q.mode
    /\ r.model_type = q.model_type
    /\ r.measurement_type = q.measurement_type

\* the second call: the same voltages and area; the same currents at any setting,
\* or the negated currents at the same setting; a later time, another measurement
Related(r) ==
    {[q EXCEPT !.measurement_id = "m2", !.now = r.now + 1] :
        q \in {q \in PairRequests :
                  /\ q.V = r.V
                  /\ q.cell_area_cm2 = r.cell_area_cm2
                  /\ IF SameSettings(r, q) THEN q.I \in {r.I, NegArr(r.I)}
                     ELSE q.I = r.I}}

NoReq == [path |-> None]
NoLoc == [set |-> FALSE]
NoCall == [called |-> FALSE]
NoOut == [raised |-> "pending"]
NoRet == [raised |-> "pending"]
NoRef == [set |-> FALSE]
NoNewton == [pc |-> "idle"]
\* no DiagnosticReport object has been constructed
NoReport ==
    [pc |-> "none", analysis_id |-> None, mode |-> None,
     residuals |-> Nothing, noise_stability |-> Nothing, boundary_stress |-> Nothing,
     args |-> [set |-> FALSE], parameters |-> Nothing, returned |-> Nothing]
NoResp == [sent |-> FALSE]
NoThread == [pc |-> "idle"]
\* the client is in no operation of the queue service
NoOperation == [pc |-> "idle", op |-> None]

\* the threads that call solve_iv_curve at the same time
Threads == {1, 2}

\* the clients that call the queue service at the same time
Clients == {1, 2}

\* the module-level dictionaries and lists every call reads
ModuleGlobals ==
    [DIFFERENTIAL_EVOLUTION_CONFIG |-> DIFFERENTIAL_EVOLUTION_CONFIG,
     EXPLORATION_DE_CONFIG |-> EXPLORATION_DE_CONFIG,
     LEVENBERG_MARQUARDT_CONFIG |-> LEVENBERG_MARQUARDT_CONFIG,
     ONE_DIODE_BOUNDS |-> ONE_DIODE_BOUNDS,
     DARK_DIODE_BOUNDS |-> DARK_DIODE_BOUNDS,
     TWO_DIODE_BOUNDS |-> TWO_DIODE_BOUNDS]

\* nothing has been drawn from the system's entropy source
InitShared == [globals |-> ModuleGlobals, entropy |-> 0]

Init ==
    /\ pc = "idle"
    /\ req = NoReq
    /\ loc = NoLoc
    /\ de = NoCall
    /\ lm = NoCall
    /\ out = NoOut
    /\ ret = NoRet
    /\ db = <<>>
    /\ ref = NoRef
    /\ newton = NoNewton
    /\ report = NoReport
    /\ resp = NoResp
    /\ thr = [t \in Threads |-> NoThread]
    /\ shared = InitShared
    /\ tickets = <<>>
    /\ qop = [c \in Clients |-> NoOperation]

(***************************************************************************)
(* Entry paths.  "direct" is a call of solve_iv_curve; "persisted" is      *)
(* POST /analyze on a stored measurement (extract_iv_data, then            *)
(* analyze_measurement); "stateless" is the stateless POST /analyze        *)
(* (analyze_measurement on the arrays of the request).                     *)
(***************************************************************************)
Start(requests) ==
    /\ pc = "idle"
    /\ \E r \in requests :
        /\ req' = r
        /\ pc' = IF r.path = "persisted" THEN "extract" ELSE "solve"
    /\ UNCHANGED <<loc, de, lm, out, ret, db, ref>>
    /\ UNCHANGED aux

Call == Start(Requests)

\* extract_iv_data: the arrays of the stored file, in amperes (no conversion)
ExtractIvData ==
    /\ pc = "extract"
    /\ IF AllFinite(req.V) /\ AllFinite(req.I)
       THEN /\ pc' = "solve"
            /\ ret' = ret
       ELSE /\ pc' = "done"
            /\ ret' = [raised |-> "Data extraction failed", analysis |-> Nothing]
    /\ UNCHANGED <<req, loc, de, lm, out, db, ref>>
    /\ UNCHANGED aux

\* raise ValueError(msg) inside solve_iv_curve
Raise(msg) ==
    /\ out' = [raised |-> msg]
    /\ pc' = "solved"

\* solve_iv_curve, lines 184-217: casts, the NaN/Inf checks, the configuration
\* snapshot, the optimizer settings of the mode, the sign convention
Validate ==
    /\ pc = "solve"
    /\ IF ~AllFinite(req.V) THEN Raise("Voltage contains NaN or Inf") /\ loc' = loc
       ELSE IF ~AllFinite(req.I) THEN Raise("Current contains NaN or Inf") /\ loc' = loc
       ELSE IF Len(req.V) = 0
            THEN Raise("zero-size array to reduction operation maximum") /\ loc' = loc
       ELSE /\ loc' = [set |-> TRUE,
                       T_k |-> req.temperature_c + KelvinOffset,
                       solver_config |-> BuildSolverConfig(req.model_type),
                       de_config |-> SelectDeConfig(req.mode),
                       I_fit |-> IF NegativeConvention(req.V, req.I)
                                 THEN NegArr(req.I) ELSE req.I,
                       sm |-> IF NegativeConvention(req.V, req.I) THEN -1 ELSE 1,
                       case |-> None, bounds |-> <<>>]
            /\ pc' = "validated"
            /\ out' = out
    /\ UNCHANGED <<req, de, lm, ret, db, ref>>
    /\ UNCHANGED aux

\* lines 219-252: the case's bounds and objective, then Stage A
GlobalOptimize ==
    /\ pc = "validated"
    /\ loc' = [loc EXCEPT !.case = FitCase(req.measurement_type, req.model_type),
                          !.bounds = CaseBounds(FitCase(req.measurement_type,
                                                        req.model_type))]
    /\ de' = [called |-> TRUE, bounds |-> loc'.bounds, V |-> req.V, I |-> loc.I_fit,
              config |-> loc.de_config,
              result |-> differential_evolution(loc'.case, loc.T_k, loc.sm, loc'.bounds,
                                                req.V, loc.I_fit, loc.de_config, req.now)]
    /\ pc' = "global_done"
    /\ UNCHANGED <<req, lm, out, ret, db, ref>>
    /\ UNCHANGED aux

\* lines 254-268: Stage B
LocalRefine ==
    /\ pc = "global_done"
    /\ lm' = [called |-> TRUE, x0 |-> de.result.x, V |-> req.V, I |-> loc.I_fit,
              lb |-> LowerBounds(loc.bounds), ub |-> UpperBounds(loc.bounds),
              method |-> "trf", kwargs |-> LmKwargs,
              result |-> least_squares(loc.case, loc.T_k, loc.sm, de.result.x, req.V,
                                       loc.I_fit, LowerBounds(loc.bounds),
                                       UpperBounds(loc.bounds), LmKwargs)]
    /\ IF lm'.result.raised # None
       THEN Raise(lm'.result.raised)
       ELSE pc' = "local_done" /\ out' = out
    /\ UNCHANGED <<req, loc, de, ret, db, ref>>
    /\ UNCHANGED aux

\* lines 270-351: unpack, derived metrics, ExtractedParameters, fingerprint
DeriveAndReturn ==
    /\ pc = "local_done"
    /\ LET extracted == Extract(req.V, req.I, req.cell_area_cm2, req.measurement_type,
                                Unpack(loc.case, lm.result.x), lm.result.fun)
       IN  out' = [raised |-> None, params |-> extracted, config |-> loc.solver_config,
                   hash |-> compute_result_hash(
                                ModelDump(extracted, ExtractedParametersFields),
                                ModelDump(loc.solver_config, SolverConfigFields))]
    /\ pc' = "solved"
    /\ UNCHANGED <<req, loc, de, lm, ret, db, ref>>
    /\ UNCHANGED aux

\* a direct caller receives what solve_iv_curve returned or raised
ReturnDirect ==
    /\ pc = "solved"
    /\ req.path = "direct"
    /\ ret' = [raised |-> out.raised, analysis |-> Nothing]
    /\ pc' = "done"
    /\ UNCHANGED <<req, loc, de, lm, out, db, ref>>
    /\ UNCHANGED aux

\* a try branch that calls the analysis valid only when both optimizers report success
TryBranchIfConverged(solved) ==
    [params |-> Some(solved.params), config |-> solved.config,
     result_hash |-> solved.hash,
     status |-> IF de.result.success /\ lm.result.success THEN "VALID" ELSE "INVALID",
     err |-> None]

\* analyze_measurement, the try branch after solve_iv_curve returned
TryBranch(solved) ==
    [params |-> Some(solved.params), config |-> solved.config,
     result_hash |-> solved.hash, status |-> "VALID", err |-> None]

\* an except branch that drops the text of the exception
ExceptBranchSilent(model_type, e) ==
    [params |-> Nothing, config |-> SolverConfig([model_type |-> model_type]),
     result_hash |-> Nothing, status |-> "INVALID", err |-> None]

\* analyze_measurement, except Exception as e (e given by its text, str(e))
ExceptBranch(model_type, e) ==
    [params |-> Nothing, config |-> SolverConfig([model_type |-> model_type]),
     result_hash |-> Nothing, status |-> "INVALID", err |-> e]

\* analyze_measurement, lines 385-403: the outcome of the try, the Analysis,
\* and create_analysis, whose INSERT the database may refuse
AnalyzeMeasurement ==
    /\ pc = "solved"
    /\ req.path # "direct"
    /\ LET got == IF out.raised = None THEN TryBranch(out)
                  ELSE ExceptBranch(req.model_type, out.raised)
           analysis == [measurement_id |-> req.measurement_id, mode |-> req.mode,
                        status |-> got.status, solver_config |-> got.config,
                        parameters |-> got.params, result_hash |-> got.result_hash,
                        error_message |-> got.err]
       IN  \E stored \in BOOLEAN :
            IF stored
            THEN /\ db' = Append(db, analysis)
                 /\ ret' = [raised |-> None, analysis |-> Some(analysis)]
            ELSE /\ db' = db
                 /\ ret' = [raised |-> "sqlite3.Error", analysis |-> Nothing]
    /\ pc' = "done"
    /\ UNCHANGED <<req, loc, de, lm, out, ref>>
    /\ UNCHANGED aux

\* a second call of solve_iv_curve after the first has returned
Again ==
    /\ pc = "done"
    /\ ~ref.set
    /\ \E r \in Related(req) :
        /\ req' = r
        /\ ref' = [set |-> TRUE, req |-> req, out |-> out]
    /\ pc' = "solve"
    /\ loc' = NoLoc
    /\ de' = NoCall
    /\ lm' = NoCall
    /\ out' = NoOut
    /\ ret' = NoRet
    /\ db' = db
    /\ UNCHANGED aux

CallPair == Start(PairRequests)

(***************************************************************************)
(* A call of one_diode_equation or two_diode_equation on its own, one pass *)
(* of the Newton loop per step.  newton holds the arguments, the loop's    *)
(* state (I, iterations, broke) and how the call ended.                    *)
(***************************************************************************)
\* voltage arrays handed to the evaluators, the empty array among them
NewtonVoltages == {Ascending, Descending, EmptyCurve[1]}

\* parameter sets (I_ph, I_0 / I_01, n / n1, I_02, n2, R_s, R_sh) from the boxes
NewtonParams ==
    {[I_ph |-> p[1], I_0 |-> p[2], n |-> p[3], I_02 |-> p[4], n2 |-> p[5],
      R_s |-> p[6], R_sh |-> p[7]] :
        p \in {<<1, 1, 1, 1, 1, 0, 1000>>, <<3, 3, 1, 1, 2, 10, 3000>>,
               <<2, 1, 3, 3, 5, 0, 3000>>, <<3, 1, 2, 1, 1, 10, 1000>>}}

NewtonModels == {"one_diode_equation", "two_diode_equation"}

\* the call: Vt = K_BOLTZMANN * T_k / Q_ELECTRON and I = np.zeros_like(V)
NewtonCall ==
    /\ newton.pc = "idle"
    /\ \E f \in NewtonModels, V \in NewtonVoltages, p \in NewtonParams,
          temperature_c \in Temperatures :
        newton' = [pc |-> "loop", f |-> f, V |-> V, p |-> p,
                   Vt |-> Quot(K_BOLTZMANN * (temperature_c + KelvinOffset), Q_ELECTRON),
                   I |-> Array(Len(V), [k \in 1..Len(V) |-> 0]),
                   iterations |-> 0, broke |-> FALSE, raised |-> None]
    /\ UNCHANGED <<solverVars, queueVars, report, resp, thr, shared>>

\* one pass of `for iteration in range(50)`; np.max of a zero-size array raises
NewtonPass ==
    /\ newton.pc = "loop"
    /\ ~newton.broke
    /\ newton.iterations < NEWTON_MAX_ITER
    /\ IF Len(newton.V) = 0
       THEN newton' = [newton EXCEPT !.pc = "raised",
                          !.iterations = @ + 1,
                          !.raised = "zero-size array to reduction operation maximum"]
       ELSE \E st \in {IF newton.f = "one_diode_equation"
                        THEN OneDiodePass(newton.V, newton, newton.p.I_ph, newton.p.I_0,
                                          newton.p.n, newton.p.R_s, newton.p.R_sh, newton.Vt)
                        ELSE TwoDiodePass(newton.V, newton, newton.p.I_ph, newton.p.I_0,
                                          newton.p.n, newton.p.I_02, newton.p.n2,
                                          newton.p.R_s, newton.p.R_sh, newton.Vt)} :
                newton' = [newton EXCEPT !.I = st.I, !.iterations = st.iterations,
                                         !.broke = st.broke]
    /\ UNCHANGED <<solverVars, queueVars, report, resp, thr, shared>>

\* `return I`, after `break` or when range(50) is exhausted
NewtonReturn ==
    /\ newton.pc = "loop"
    /\ newton.broke \/ newton.iterations = NEWTON_MAX_ITER
    /\ newton' = [newton EXCEPT !.pc = "returned"]
    /\ UNCHANGED <<solverVars, queueVars, report, resp, thr, shared>>

NextNewton ==
    \/ NewtonCall
    \/ NewtonPass
    \/ NewtonReturn

SpecNewton == Init /\ [][NextNewton]_vars

(***************************************************************************)
(* The diagnostic report (backend/services/diagnostic_service.py).         *)
(* Voltages, currents, residuals, strengths and slopes are in hundredths;  *)
(* the coefficients np.polyfit returns are inputs drawn from small sets.   *)
(* report holds the three result dicts of a DiagnosticReport object, the   *)
(* arguments its methods were called with, and what generate_report        *)
(* returned.                                                               *)
(***************************************************************************)
\* np.ptp(a)
Ptp(a) == MaxSeq(a) + MaxSeq(Array(Len(a), [k \in 1..Len(a) |-> -a[k]]))

\* a classification that tests the curvature before the cubic strength
ClassifyCurvatureFirst(cubic, quad, slope, rms, ptp_res, ptp_volt) ==
    IF 10 * quad > rms
    THEN [pattern |-> "systematic_curvature", warning |-> "HIGH"]
    ELSE IF 100 * cubic > 15 * rms
    THEN [pattern |-> "s_shaped", warning |-> "CRITICAL"]
    ELSE IF (IF ptp_volt > 0 THEN Abs(slope) * ptp_volt > 5 * ptp_res
             ELSE Abs(slope) > 5)
    THEN [pattern |-> "linear_trend", warning |-> "MEDIUM"]
    ELSE [pattern |-> "random", warning |-> "LOW"]

\* the classification logic of analyze_residuals (lines 57-73); the third test is
\* abs(slope) > 0.05 * (ptp_residuals / ptp_voltage if ptp_voltage > 0 else 1.0)
Classify(cubic_strength, quad_strength, slope, rms, ptp_residuals, ptp_voltage) ==
    IF 100 * cubic_strength > 15 * rms
    THEN [pattern |-> "s_shaped", warning |-> "CRITICAL"]
    ELSE IF 10 * quad_strength > rms
    THEN [pattern |-> "systematic_curvature", warning |-> "HIGH"]
    ELSE IF (IF ptp_voltage > 0 THEN Abs(slope) * ptp_voltage > 5 * ptp_residuals
             ELSE Abs(slope) > 5)
    THEN [pattern |-> "linear_trend", warning |-> "MEDIUM"]
    ELSE [pattern |-> "random", warning |-> "LOW"]

\* measured - fitted
ResidualsOf(measured, fitted) ==
    Array(Len(measured), [k \in 1..Len(measured) |-> measured[k] - fitted[k]])

\* the statistics of lines 30-55; polyfit holds the leading coefficients of the
\* fits of degree 1, 2 and 3
ResidualStatistics(voltage, residuals, polyfit) ==
    LET many == Len(voltage) > 1
        ptp_voltage == IF many THEN Ptp(voltage) ELSE 100
    IN  [rms |-> ISqrt(Quot(SumSq(residuals), Len(residuals))),
         ptp_voltage |-> ptp_voltage,
         ptp_residuals |-> IF Len(residuals) > 1 THEN Ptp(residuals) ELSE 0,
         slope |-> IF many THEN polyfit.slope ELSE 0,
         quadratic_strength |->
             IF many THEN Quot(Abs(polyfit.poly2) * ptp_voltage * ptp_voltage, 10000) ELSE 0,
         cubic_strength |->
             IF many
             THEN Quot(Quot(Abs(polyfit.poly3) * ptp_voltage * ptp_voltage, 10000)
                       * ptp_voltage, 100)
             ELSE 0]

\* the dict analyze_residuals stores and returns, for statistics s classified as c
ResidualsDict(s, c) ==
    [pattern |-> c.pattern, warning |-> c.warning, rms |-> s.rms, slope |-> s.slope,
     quadratic_strength |-> s.quadratic_strength, cubic_strength |-> s.cubic_strength]

ClassifiedStatistics(s) ==
    ResidualsDict(s, Classify(s.cubic_strength, s.quadratic_strength, s.slope, s.rms,
                              s.ptp_residuals, s.ptp_voltage))

analyze_residuals(voltage, measured, fitted, polyfit) ==
    ClassifiedStatistics(
        ResidualStatistics(voltage, ResidualsOf(measured, fitted), polyfit))

\* d.get(key, default)
Get(d, key, default) == IF key \in DOMAIN d THEN d[key] ELSE default

\* the parameters analyze_noise_stability looks at, in its order
NoiseParams == <<"Jsc", "Voc", "FF", "Rs", "Rsh", "n">>

\* abs(noisy_val - clean_val) / clean_val, per mille
Drift(noisy_val, clean_val) == Quot(1000 * Abs(noisy_val - clean_val), clean_val)

\* drifts[param]["max"] for every param whose clean value is not 0
MaxDrifts(clean_results, noisy_results_list) ==
    Masked(Array(Len(NoiseParams), [j \in 1..Len(NoiseParams) |->
               IF Get(clean_results, NoiseParams[j], 0) = 0 THEN 0
               ELSE MaxSeq(Array(Len(noisy_results_list),
                        [i \in 1..Len(noisy_results_list) |->
                            Drift(Get(noisy_results_list[i], NoiseParams[j], 0),
                                  clean_results[NoiseParams[j]])]))]),
           Array(Len(NoiseParams), [j \in 1..Len(NoiseParams) |->
               Get(clean_results, NoiseParams[j], 0) # 0]))

\* stability_score = max(0, 100 * (1 - 10 * avg_max_drift)) if drifts else 0
StabilityScore(max_drifts) ==
    IF max_drifts # <<>>
    THEN Max(0, 100 - Quot(SumSeq(max_drifts), Len(max_drifts)))
    ELSE 0

analyze_noise_stability(clean_results, noisy_results_list) ==
    [stability_score |-> StabilityScore(MaxDrifts(clean_results, noisy_results_list)),
     n_iterations |-> Len(noisy_results_list)]

\* a check that knows the bounds only, without the 10% margin
BoundaryHitAtBound(param, value, lower, upper) ==
    IF value = NoneF THEN <<>>
    ELSE IF lower # NoneF /\ value <= lower
    THEN <<[parameter |-> param, value |-> value, bound |-> lower,
            direction |-> "lower", severity |-> "ERROR"]>>
    ELSE IF upper # NoneF /\ value >= upper
    THEN <<[parameter |-> param, value |-> value, bound |-> upper,
            direction |-> "upper", severity |-> "ERROR"]>>
    ELSE <<>>

\* the body of the loop of analyze_boundary_stress for one parameter: the hits it
\* appends (value <= lower * 1.1, elif value >= upper * 0.9)
BoundaryHit(param, value, lower, upper) ==
    IF value = NoneF THEN <<>>
    ELSE IF lower # NoneF /\ 10 * value <= 11 * lower
    THEN <<[parameter |-> param, value |-> value, bound |-> lower,
            direction |-> "lower",
            severity |-> IF value <= lower THEN "ERROR" ELSE "WARNING"]>>
    ELSE IF upper # NoneF /\ 10 * value >= 9 * upper
    THEN <<[parameter |-> param, value |-> value, bound |-> upper,
            direction |-> "upper",
            severity |-> IF value >= upper THEN "ERROR" ELSE "WARNING"]>>
    ELSE <<>>

RECURSIVE BoundaryHits(_, _)
\* for param, (lower, upper) in bounds.items(), bounds a sequence of
\* (param, lower, upper)
BoundaryHits(parameters, bounds) ==
    IF bounds = <<>> THEN <<>>
    ELSE BoundaryHit(bounds[1][1], Get(parameters, bounds[1][1], NoneF),
                     bounds[1][2], bounds[1][3])
         \o BoundaryHits(parameters, Tail(bounds))

\* the dict analyze_boundary_stress stores and returns, for the hits found
BoundaryStressDict(boundary_hits, bounds) ==
    [boundary_hits |-> boundary_hits, n_hits |-> Len(boundary_hits),
     bounds_used |-> bounds]

analyze_boundary_stress(parameters, bounds) ==
    BoundaryStressDict(BoundaryHits(parameters, bounds), bounds)

\* {"LOW": 10, "MEDIUM": 40, "HIGH": 70, "CRITICAL": 90}.get(warning, 50)
ResidualRisk(warning) ==
    CASE warning = "LOW" -> 10
      [] warning = "MEDIUM" -> 40
      [] warning = "HIGH" -> 70
      [] warning = "CRITICAL" -> 90
      [] OTHER -> 50

\* risk_factors, in the order generate_report appends them
RiskFactors(self) ==
    (IF self.residuals # Nothing
     THEN <<ResidualRisk(self.residuals[1].warning)>> ELSE <<>>)
    \o (IF self.noise_stability # Nothing
        THEN <<100 - self.noise_stability[1].stability_score>> ELSE <<>>)
    \o (IF self.boundary_stress # Nothing
        THEN <<IF self.boundary_stress[1].n_hits * 20 < 100
               THEN self.boundary_stress[1].n_hits * 20 ELSE 100>>
        ELSE <<>>)

\* np.mean(risk_factors) if risk_factors else 0, in sixths
MeanRisk(risk_factors) ==
    IF risk_factors # <<>> THEN Quot(6 * SumSeq(risk_factors), Len(risk_factors)) ELSE 0

\* the report dict for an overall risk (in sixths)
ReportDict(self, overall_risk) ==
    [analysis_id |-> self.analysis_id, mode |-> self.mode,
     residuals |-> self.residuals, noise_stability |-> self.noise_stability,
     boundary_stress |-> self.boundary_stress,
     overall_risk_score |-> overall_risk,
     validation_passed |-> overall_risk < 6 * 50]

generate_report(self) == ReportDict(self, MeanRisk(RiskFactors(self)))

\* DiagnosticReport(analysis_id, mode)
DiagnosticReport(analysis_id, mode) ==
    [pc |-> "open", analysis_id |-> analysis_id, mode |-> mode,
     residuals |-> Nothing, noise_stability |-> Nothing, boundary_stress |-> Nothing,
     args |-> [set |-> FALSE], parameters |-> Nothing, returned |-> Nothing]

\* the bounds both callers of analyze_boundary_stress pass: n (0.8, 2.5),
\* Rs (0, 1000), Rsh (1.0, 1e9), in hundredths (the last one capped at 1e6)
DiagnosticBounds ==
    << <<"n", 80, 250>>, <<"Rs", 0, 100000>>, <<"Rsh", 100, 100000000>> >>

\* inputs of the report's methods
DiagVoltages == { <<100>>, <<100, 100, 100>>, <<0, 100, 200>> }

DiagMeasured(len) ==
    IF len = 1 THEN { <<30>> }
    ELSE { <<10, 10, 10>>, <<110, -90, 110>>, <<120, -100, 120>>, <<210, -190, 210>> }

DiagFitted(len) == Array(len, [k \in 1..len |-> 10])

NoPolyfit == [slope |-> 0, poly2 |-> 0, poly3 |-> 0]

\* what np.polyfit returns: the leading coefficients of the three fits, all zero
\* when every residual is zero
PolyfitResults(residuals) ==
    IF \A k \in 1..Len(residuals) : residuals[k] = 0 THEN {NoPolyfit}
    ELSE {[slope |-> a, poly2 |-> b, poly3 |-> c] :
             a \in {-10, 0, 6}, b \in {0, 3}, c \in {0, 2}}

DiagParameters ==
    {[n |-> a, Rs |-> b, Rsh |-> c] :
        a \in {NoneF, 70, 80, 88, 89, 225, 250, 260}, b \in {0, 50, 90000},
        c \in {100, 111, 100000000}}

\* clean results with the results of the perturbed runs
NoiseRuns ==
    { <<[Jsc |-> 200], << [Jsc |-> 210] >> >>,
      <<[Jsc |-> 200, n |-> 10], << [Jsc |-> 200, n |-> 10], [Jsc |-> 200, n |-> 10] >> >>,
      <<[Jsc |-> 200], << [Jsc |-> 400] >> >>,
      <<[Jsc |-> 0], << [Jsc |-> 10] >> >>,
      <<[Jsc |-> -200], << [Jsc |-> -210] >> >> }

NewReport ==
    /\ report.pc = "none"
    /\ \E mode \in Modes : report' = DiagnosticReport("stateless", mode)
    /\ UNCHANGED <<solverVars, queueVars, newton, resp, thr, shared>>

AnalyzeResiduals ==
    /\ report.pc = "open"
    /\ report.residuals = Nothing
    /\ \E voltage \in DiagVoltages :
       \E measured \in DiagMeasured(Len(voltage)) :
       \E polyfit \in IF Len(voltage) > 1
                       THEN PolyfitResults(ResidualsOf(measured, DiagFitted(Len(voltage))))
                       ELSE {NoPolyfit} :
          report' = [report EXCEPT
              !.residuals = Some(analyze_residuals(voltage, measured,
                                                   DiagFitted(Len(voltage)), polyfit)),
              !.args = [set |-> TRUE, voltage |-> voltage, measured |-> measured,
                        fitted |-> DiagFitted(Len(voltage))]]
    /\ UNCHANGED <<solverVars, queueVars, newton, resp, thr, shared>>

AnalyzeNoiseStability ==
    /\ report.pc = "open"
    /\ report.noise_stability = Nothing
    /\ \E run \in NoiseRuns :
          report' = [report EXCEPT
              !.noise_stability = Some(analyze_noise_stability(run[1], run[2]))]
    /\ UNCHANGED <<solverVars, queueVars, newton, resp, thr, shared>>

AnalyzeBoundaryStress ==
    /\ report.pc = "open"
    /\ report.boundary_stress = Nothing
    /\ \E parameters \in DiagParameters :
          report' = [report EXCEPT
              !.boundary_stress = Some(analyze_boundary_stress(parameters,
                                                               DiagnosticBounds)),
              !.parameters = Some(parameters)]
    /\ UNCHANGED <<solverVars, queueVars, newton, resp, thr, shared>>

GenerateReport ==
    /\ report.pc = "open"
    /\ report' = [report EXCEPT !.pc = "generated",
                                !.returned = Some(generate_report(report))]
    /\ UNCHANGED <<solverVars, queueVars, newton, resp, thr, shared>>

NextReport ==
    \/ NewReport
    \/ AnalyzeResiduals
    \/ AnalyzeNoiseStability
    \/ AnalyzeBoundaryStress
    \/ GenerateReport

SpecReport == Init /\ [][NextReport]_vars

(***************************************************************************)
(* The stateless POST /analyze after analyze_measurement                   *)
(* (backend/api/stateless_api.py, lines 246-341): the diagnostics block,   *)
(* the response dict, and the outer except that turns any exception into   *)
(* HTTP 500.  resp is the response; report is the DiagnosticReport object  *)
(* of the block, or records that the block raised.                         *)
(***************************************************************************)
\* the module-level names of backend/config.py
ConfigNames ==
    {"DETERMINISM_ENV_VARS", "GLOBAL_RNG_SEED", "enforce_determinism", "get_rng_seed",
     "DIFFERENTIAL_EVOLUTION_CONFIG", "EXPLORATION_DE_CONFIG",
     "LEVENBERG_MARQUARDT_CONFIG", "NUMERICAL_TOLERANCES", "PROJECT_ROOT", "DATA_DIR",
     "RAW_DATA_DIR", "EXPORTS_DIR", "DATABASE_PATH", "ensure_directories", "initialize",
     "os", "sys", "warnings", "pathlib"}

\* from backend.config import name
ImportFromConfig(name) ==
    IF name \in ConfigNames THEN [raised |-> None]
    ELSE [raised |-> "cannot import name from backend.config", name |-> name]

\* generate_runtime_signature(): the versions of the numerical libraries
RuntimeSignature == <<"scipy", "numpy", "pvlib">>

\* generate_physics_audit_id(solver_config): sha256 of the signature and the
\* sorted settings
generate_physics_audit_id(solver_config) ==
    Sha256(<<RuntimeSignature, SortKeys(ModelDump(solver_config, SolverConfigFields))>>)

\* generate_bibtex(audit_id, mode, analysis_id): the import comes first
generate_bibtex(audit_id, mode, analysis_id) ==
    IF ImportFromConfig("FRONTEND_BASE_URL").raised # None
    THEN [raised |-> ImportFromConfig("FRONTEND_BASE_URL").raised]
    ELSE [raised |-> None, text |-> <<"@manual", audit_id, mode, "FRONTEND_BASE_URL">>]

\* x or default
OrElse(x, default) == IF x = NoneF \/ x = 0 THEN default ELSE x

\* the fitted curve the block reconstructs, or the TypeError of a two-diode
\* evaluation with n2 = None (1e-12 is 0 on the grid)
StatelessFitted(model_type, p, V, temperature_c, area) ==
    IF model_type = "TwoDiode"
    THEN IF p.n2_ideality = NoneF
         THEN [raised |-> "unsupported operand type(s) for *: 'NoneType' and 'float'"]
         ELSE [raised |-> None,
               I_fitted |-> two_diode_equation(V, OrElse(p.i_ph, 0), OrElse(p.i_0, 0),
                                OrElse(p.n_ideality, 1), 0, p.n2_ideality,
                                Quot(p.r_s, area), Quot(p.r_sh, area),
                                temperature_c + KelvinOffset)]
    ELSE [raised |-> None,
          I_fitted |-> one_diode_equation(V, OrElse(p.i_ph, 0), OrElse(p.i_0, 0),
                           OrElse(p.n_ideality, 1), Quot(p.r_s, area),
                           Quot(p.r_sh, area), temperature_c + KelvinOffset)]

\* the report object after analyze_residuals and analyze_boundary_stress
\* (parameters in hundredths)
StatelessReport(r, p, fitted, polyfit) ==
    [DiagnosticReport("stateless", r.mode) EXCEPT
        !.residuals = Some(analyze_residuals(r.V, r.I, fitted, polyfit)),
        !.args = [set |-> TRUE, voltage |-> r.V, measured |-> r.I, fitted |-> fitted],
        !.parameters = Some([n |-> 100 * p.n_ideality, Rs |-> 100 * p.r_s,
                             Rsh |-> 100 * p.r_sh]),
        !.boundary_stress =
            Some(analyze_boundary_stress([n |-> 100 * p.n_ideality, Rs |-> 100 * p.r_s,
                                          Rsh |-> 100 * p.r_sh], DiagnosticBounds))]

\* the outcomes of the diagnostics block for a VALID analysis with parameters p:
\* the report object with what generate_report returned, or the exception the
\* block printed
DiagnosticsBlock(r, p) ==
    LET got == StatelessFitted(r.model_type, p, r.V, r.temperature_c, r.cell_area_cm2)
    IN  IF got.raised # None
        THEN {[NoReport EXCEPT !.pc = "raised"]}
        ELSE {[self EXCEPT !.pc = "generated", !.returned = Some(generate_report(self))] :
                 self \in {StatelessReport(r, p, got.I_fitted, polyfit) :
                              polyfit \in PolyfitResults(ResidualsOf(r.I, got.I_fitted))}}

\* raise HTTPException(status_code=500, detail=f"Analysis failed: {str(e)}")
HTTPException(e) ==
    [sent |-> TRUE, status_code |-> 500, detail |-> <<"Analysis failed: ", e>>]

\* the response dict res, or HTTP 500 when building it raises
StatelessResponse(analysis, diagnostic_report) ==
    LET audit_id == generate_physics_audit_id(analysis.solver_config)
        bibtex == generate_bibtex(audit_id, analysis.mode, analysis.measurement_id)
    IN  IF bibtex.raised # None THEN HTTPException(bibtex.raised)
        ELSE [sent |-> TRUE, status_code |-> 200,
              body |-> [status |-> analysis.status, mode |-> analysis.mode,
                        result_hash |-> analysis.result_hash,
                        error_message |-> analysis.error_message,
                        diagnostics |-> diagnostic_report, audit_id |-> audit_id,
                        bibtex |-> bibtex.text, parameters |-> analysis.parameters]]

\* analyze_stateless from the return of analyze_measurement to the response
RespondStateless ==
    /\ pc = "done"
    /\ req.path = "stateless"
    /\ ~resp.sent
    /\ IF ret.raised # None
       THEN /\ resp' = HTTPException(ret.raised)
            /\ report' = report
       ELSE LET analysis == ret.analysis[1]
            IN  IF analysis.status = "VALID" /\ analysis.parameters # Nothing
                THEN \E self \in DiagnosticsBlock(req, analysis.parameters[1]) :
                        /\ report' = self
                        /\ resp' = StatelessResponse(analysis, self.returned)
                ELSE /\ report' = report
                     /\ resp' = StatelessResponse(analysis, Nothing)
    /\ UNCHANGED <<solverVars, queueVars, newton, thr, shared>>

(***************************************************************************)
(* Concurrent calls of solve_iv_curve, one per thread.  thr[t] is the      *)
(* frame of thread t (its arguments, locals and return value); the steps   *)
(* of a call are those of the direct entry path, reading the module-level  *)
(* dictionaries and lists through shared.globals, and they interleave      *)
(* freely.  shared.entropy is the system's entropy source, which a         *)
(* generator without an integer seed would draw from.                      *)
(***************************************************************************)
ThreadRequests ==
    {Request("direct", curve, 1, 25, mode, model_type, "light", "m1", 0) :
        curve \in {SourceCurve, SinkCurve}, mode \in Modes, model_type \in ModelTypes}
    \cup {Request("direct", <<Ascending, Poison(ZeroCurrent, 1, NaN)>>, 1, 25,
                  "Reference", "OneDiode", "dark", "m1", 0)}

\* the frame of a call with arguments r, made while the calls `others` were running
NewFrame(r, others) ==
    [pc |-> "solve", req |-> r, loc |-> NoLoc, de |-> NoCall, lm |-> NoCall, out |-> NoOut,
     others |-> others]

\* raise ValueError(msg) in frame f
RaiseIn(f, msg) == [f EXCEPT !.pc = "returned", !.out = [raised |-> msg]]

\* lines 184-236 in frame f, reading the globals g
ValidateFrame(f, g) ==
    IF f.pc # "solve" THEN f
    ELSE IF ~AllFinite(f.req.V) THEN RaiseIn(f, "Voltage contains NaN or Inf")
    ELSE IF ~AllFinite(f.req.I) THEN RaiseIn(f, "Current contains NaN or Inf")
    ELSE IF Len(f.req.V) = 0
         THEN RaiseIn(f, "zero-size array to reduction operation maximum")
    ELSE [f EXCEPT
            !.pc = "validated",
            !.loc = [set |-> TRUE,
                     T_k |-> f.req.temperature_c + KelvinOffset,
                     solver_config |-> BuildSolverConfig(f.req.model_type),
                     de_config |-> IF f.req.mode = "Exploration"
                                   THEN g.EXPLORATION_DE_CONFIG
                                   ELSE g.DIFFERENTIAL_EVOLUTION_CONFIG,
                     I_fit |-> IF NegativeConvention(f.req.V, f.req.I)
                               THEN NegArr(f.req.I) ELSE f.req.I,
                     sm |-> IF NegativeConvention(f.req.V, f.req.I) THEN -1 ELSE 1,
                     case |-> FitCase(f.req.measurement_type, f.req.model_type),
                     bounds |-> CASE f.req.measurement_type = "dark" -> DarkLogBounds
                                  [] f.req.model_type = "OneDiode" -> g.ONE_DIODE_BOUNDS
                                  [] OTHER -> g.TWO_DIODE_BOUNDS]]

\* lines 238-244 in frame f: Stage A, with the entropy a generator may draw
GlobalFrame(f, entropy) ==
    IF f.pc # "validated" THEN f
    ELSE [f EXCEPT
            !.pc = "global_done",
            !.de = [called |-> TRUE, bounds |-> f.loc.bounds, V |-> f.req.V,
                    I |-> f.loc.I_fit, config |-> f.loc.de_config,
                    result |-> differential_evolution(f.loc.case, f.loc.T_k, f.loc.sm,
                                  f.loc.bounds, f.req.V, f.loc.I_fit, f.loc.de_config,
                                  entropy)]]

\* the frame after least_squares returned or raised result
RefinedFrame(f, result) ==
    IF result.raised # None
    THEN [RaiseIn(f, result.raised) EXCEPT !.lm = [called |-> TRUE, result |-> result]]
    ELSE [f EXCEPT !.pc = "local_done", !.lm = [called |-> TRUE, result |-> result]]

\* lines 247-267 in frame f: Stage B
LocalFrame(f) ==
    IF f.pc # "global_done" THEN f
    ELSE RefinedFrame(f, least_squares(f.loc.case, f.loc.T_k, f.loc.sm, f.de.result.x,
                                       f.req.V, f.loc.I_fit, LowerBounds(f.loc.bounds),
                                       UpperBounds(f.loc.bounds), LmKwargs))

\* the frame returning extracted with its configuration and fingerprint
ReturnedFrame(f, extracted) ==
    [f EXCEPT !.pc = "returned",
              !.out = [raised |-> None, params |-> extracted,
                       config |-> f.loc.solver_config,
                       hash |-> compute_result_hash(
                                    ModelDump(extracted, ExtractedParametersFields),
                                    ModelDump(f.loc.solver_config, SolverConfigFields))]]

\* lines 270-351 in frame f
DeriveFrame(f) ==
    IF f.pc # "local_done" THEN f
    ELSE ReturnedFrame(f, Extract(f.req.V, f.req.I, f.req.cell_area_cm2,
                                  f.req.measurement_type,
                                  Unpack(f.loc.case, f.lm.result.x), f.lm.result.fun))

\* thread t calls solve_iv_curve
ThreadCall(t) ==
    /\ thr[t].pc = "idle"
    /\ \E r \in ThreadRequests :
          thr' = [thr EXCEPT ![t] =
                     NewFrame(r, {u \in Threads : thr[u].pc \notin {"idle", "returned"}})]
    /\ UNCHANGED <<solverVars, queueVars, newton, report, resp, shared>>

ThreadValidate(t) ==
    /\ thr[t].pc = "solve"
    /\ thr' = [thr EXCEPT ![t] = ValidateFrame(thr[t], shared.globals)]
    /\ UNCHANGED <<solverVars, queueVars, newton, report, resp, shared>>

\* Stage A; the entropy source moves on whether or not the generator drew from it
ThreadGlobalOptimize(t) ==
    /\ thr[t].pc = "validated"
    /\ thr' = [thr EXCEPT ![t] = GlobalFrame(thr[t], shared.entropy)]
    /\ shared' = [shared EXCEPT !.entropy = @ + 1]
    /\ UNCHANGED <<solverVars, queueVars, newton, report, resp>>

ThreadLocalRefine(t) ==
    /\ thr[t].pc = "global_done"
    /\ thr' = [thr EXCEPT ![t] = LocalFrame(thr[t])]
    /\ UNCHANGED <<solverVars, queueVars, newton, report, resp, shared>>

ThreadDeriveAndReturn(t) ==
    /\ thr[t].pc = "local_done"
    /\ thr' = [thr EXCEPT ![t] = DeriveFrame(thr[t])]
    /\ UNCHANGED <<solverVars, queueVars, newton, report, resp, shared>>

NextThreads ==
    \E t \in Threads :
        \/ ThreadCall(t)
        \/ ThreadValidate(t)
        \/ ThreadGlobalOptimize(t)
        \/ ThreadLocalRefine(t)
        \/ ThreadDeriveAndReturn(t)

SpecThreads == Init /\ [][NextThreads]_vars

(***************************************************************************)
(* The ticket queue (backend/services/queue_service.py).  A text is the    *)
(* sequence of its characters, so that LIKE, ORDER BY on a text column,    *)
(* slicing, int() and the :03d format are computed as SQLite and Python    *)
(* compute them.  A timestamp is the number of the instant; a ticket's id  *)
(* is the number of its row, since uuid4 gives every Ticket a fresh one.   *)
(* The services and counters tables are the ones of the database file the  *)
(* service is opened on (every table is CREATE TABLE IF NOT EXISTS);       *)
(* create_counter itself can store no counter that offers a service,       *)
(* because json.dumps of a list of UUID objects raises TypeError.          *)
(***************************************************************************)
\* the characters of a ticket number, in the order of the BINARY collation
Alphabet == <<"0", "1", "2", "3", "4", "5", "6", "7", "8", "9", "A", "B">>

Ord(ch) == CHOOSE k \in 1..Len(Alphabet) : Alphabet[k] = ch

\* a < b as SQLite orders two texts
RECURSIVE TextLess(_, _)
TextLess(a, b) ==
    IF a = <<>> THEN b # <<>>
    ELSE IF b = <<>> THEN FALSE
    ELSE IF a[1] = b[1] THEN TextLess(Tail(a), Tail(b))
    ELSE Ord(a[1]) < Ord(b[1])

\* text LIKE 'prefix%'
Like(text, prefix) ==
    Len(text) >= Len(prefix) /\ SubSeq(text, 1, Len(prefix)) = prefix

\* int(text) raises ValueError unless text is a decimal numeral
IsNumeral(text) == text # <<>> /\ \A k \in 1..Len(text) : Ord(text[k]) <= 10

RECURSIVE int(_)
int(text) ==
    IF text = <<>> THEN 0
    ELSE 10 * int(SubSeq(text, 1, Len(text) - 1)) + (Ord(text[Len(text)]) - 1)

RECURSIVE Decimal(_)
Decimal(n) ==
    IF n < 10 THEN <<Alphabet[n + 1]>>
    ELSE Decimal(n \div 10) \o <<Alphabet[(n % 10) + 1]>>

RECURSIVE ZeroPad(_, _)
ZeroPad(text, width) ==
    IF Len(text) >= width THEN text ELSE ZeroPad(<<"0">> \o text, width)

\* f"{n:03d}"
Format03d(n) == ZeroPad(Decimal(n), 3)

\* a value of an SQL expression, with its storage class
Text(s) == <<"text", s>>
Integer(n) == <<"integer", n>>
\* a = b between two values no column affinity applies to
SqlEq(a, b) == a[1] = b[1] /\ a[2] = b[2]

\* the rows of the services table
Services ==
    {[id |-> "s1", prefix |-> <<"A">>, priority_default |-> "normal"],
     [id |-> "s2", prefix |-> <<"A", "B">>, priority_default |-> "normal"]}

\* the rows of the counters table, services_offered after json.loads
Counters ==
    {[id |-> "c1", status |-> "active", services_offered |-> <<"s1">>,
      current_operator |-> None],
     [id |-> "c2", status |-> "active", services_offered |-> <<"s1", "s2">>,
      current_operator |-> None]}

_get_service(service_id) == The({s \in Services : s.id = service_id})
_get_counter(counter_id) == The({c \in Counters : c.id = counter_id})

\* the most tickets the table holds
MaxTickets == 3

\* the priority a customer asks for; None stands for no customer_data
PriorityInputs == {None, "urgent"}
OperatorNames == {None, "op"}

\* datetime.utcnow(): an instant later than every instant stored
RECURSIVE Latest(_)
Latest(rows) ==
    IF rows = <<>> THEN 0
    ELSE LET r == rows[1]
         IN  Max(Max(Max(r.created_at, r.called_at),
                     Max(r.service_started_at, r.completed_at)),
                 Latest(Tail(rows)))

utcnow(rows) == Latest(rows) + 1

\* Ticket(**ticket_data), with the defaults of the entity
Ticket(id, ticket_number, service_id, priority, created_at) ==
    [id |-> id, ticket_number |-> ticket_number, service_id |-> service_id,
     status |-> "waiting", priority |-> priority, created_at |-> created_at,
     called_at |-> NoneF, service_started_at |-> NoneF, completed_at |-> NoneF,
     counter_id |-> None, called_by |-> None, notes |-> Nothing]

Rows(rows) == {rows[k] : k \in 1..Len(rows)}

\* ORDER BY ticket_number DESC LIMIT 1
LastNumber(numbers) ==
    CHOOSE n \in numbers : \A m \in numbers : m = n \/ TextLess(m, n)

\* the next number for the prefix, or the ValueError int() raises
_generate_ticket_number(rows, prefix) ==
    LET matching == {r.ticket_number : r \in {q \in Rows(rows) : Like(q.ticket_number, prefix)}}
    IN  IF matching = {} THEN [raised |-> None, value |-> prefix \o Format03d(1)]
        ELSE LET digits == The({SubSeq(n, Len(prefix) + 1, Len(n)) : n \in {LastNumber(matching)}})
             IN  IF IsNumeral(digits)
                 THEN [raised |-> None, value |-> prefix \o Format03d(int(digits) + 1)]
                 ELSE [raised |-> "ValueError"]

\* the client is in no operation, or its last operation has returned
Free(c) == qop[c].pc \in {"idle", "done"}

\* the tickets whose INSERT is still to come
Pending == Cardinality({c \in Clients : qop[c].pc = "numbered"})

(* generate_ticket, lines 104-109: the service is read and the number is   *)
(* chosen from the numbers in the table.                                   *)
GenerateTicketNumber(c) ==
    /\ Free(c)
    /\ Len(tickets) + Pending < MaxTickets
    /\ \E s \in Services, p \in PriorityInputs :
          LET service == _get_service(s.id)
              number == _generate_ticket_number(tickets, service.prefix)
          IN  qop' = [qop EXCEPT ![c] =
                  IF number.raised # None
                  THEN [pc |-> "done", op |-> "generate_ticket", service_id |-> s.id,
                        raised |-> number.raised]
                  ELSE [pc |-> "numbered", op |-> "generate_ticket", service_id |-> s.id,
                        ticket_number |-> number.value,
                        priority |-> IF p = None THEN service.priority_default ELSE p]]
    /\ UNCHANGED tickets
    /\ UNCHANGED <<solverVars, newton, report, resp, thr, shared>>

(* generate_ticket, lines 111-146: the Ticket is built and inserted;       *)
(* UNIQUE(ticket_number) rejects a number the table already holds.         *)
GenerateTicketInsert(c) ==
    /\ qop[c].pc = "numbered"
    /\ LET f == qop[c]
           ticket == Ticket(Len(tickets) + 1, f.ticket_number, f.service_id,
                            f.priority, utcnow(tickets))
       IN  IF \E r \in Rows(tickets) : r.ticket_number = f.ticket_number
           THEN /\ qop' = [qop EXCEPT ![c] =
                       [pc |-> "done", op |-> "generate_ticket", service_id |-> f.service_id,
                        raised |-> "IntegrityError"]]
                /\ UNCHANGED tickets
           ELSE /\ tickets' = Append(tickets, ticket)
                /\ qop' = [qop EXCEPT ![c] =
                       [pc |-> "done", op |-> "generate_ticket", service_id |-> f.service_id,
                        raised |-> None, result |-> ticket]]
    /\ UNCHANGED <<solverVars, newton, report, resp, thr, shared>>

\* json_each(array): one row for each element; id is the integer that
\* numbers the element
json_each(array) ==
    {[key |-> Integer(k - 1), value |-> Text(array[k]), id |-> Integer(k)] :
        k \in 1..Len(array)}

\* SELECT value FROM json_each(?) WHERE value = id, with id the column of
\* the services row of the enclosing query
OfferedIdsOfService(array, service) ==
    {r.value : r \in {e \in json_each(array) : SqlEq(e.value, Text(service.id))}}

\* SELECT value FROM json_each(?) WHERE value = id, for one row of services:
\* json_each is the innermost table with a column named id, so the name is
\* bound to it
OfferedIds(array, service) ==
    {r.value : r \in {e \in json_each(array) : SqlEq(e.value, e.id)}}

\* SELECT prefix FROM services WHERE id IN (...), for the JSON list of the
\* counter's services
OfferedPrefixes(array) ==
    {s.prefix : s \in {q \in Services : Text(q.id) \in OfferedIds(array, q)}}

\* CASE t.priority WHEN 'urgent' THEN 1 ... END
PriorityRank(priority) ==
    CASE priority = "urgent" -> 1
      [] priority = "high" -> 2
      [] priority = "normal" -> 3
      [] priority = "low" -> 4

\* ORDER BY the rank, then created_at ASC (then the order of the rows)
Before(a, b) ==
    \/ PriorityRank(a.priority) < PriorityRank(b.priority)
    \/ /\ PriorityRank(a.priority) = PriorityRank(b.priority)
       /\ \/ a.created_at < b.created_at
          \/ a.created_at = b.created_at /\ a.id < b.id

\* the query of call_next_ticket: the id of the first row, or no row
SelectNextTicket(rows, counter) ==
    LET offered == OfferedPrefixes(counter.services_offered)
        found == {t \in Rows(rows) :
                     /\ t.status = "waiting"
                     /\ \E s \in Services : s.id = t.service_id /\ s.prefix \in offered}
    IN  IF found = {} THEN Nothing
        ELSE Some((CHOOSE t \in found : \A u \in found : u = t \/ Before(t, u)).id)

\* UPDATE tickets SET status = 'called', called_at, counter_id, called_by
\* WHERE id = ?
MarkCalled(rows, ticket_id, counter_id, operator_name, now) ==
    [rows EXCEPT ![ticket_id] =
        [@ EXCEPT !.status = "called", !.called_at = now,
                  !.counter_id = counter_id, !.called_by = operator_name]]

(* call_next_ticket, lines 167-193: the counter is read and the next       *)
(* ticket is selected.                                                     *)
CallNextSelect(c) ==
    /\ Free(c)
    /\ \E counter \in Counters, operator_name \in OperatorNames :
          qop' = [qop EXCEPT ![c] =
              [pc |-> "selected", op |-> "call_next_ticket", counter_id |-> counter.id,
               operator_name |-> operator_name,
               row |-> SelectNextTicket(tickets, _get_counter(counter.id))]]
    /\ UNCHANGED tickets
    /\ UNCHANGED <<solverVars, newton, report, resp, thr, shared>>

(* call_next_ticket, lines 195-212: None (Nothing) when no row was         *)
(* selected; else the ticket is updated and read again.                    *)
CallNextUpdate(c) ==
    /\ qop[c].pc = "selected"
    /\ LET f == qop[c]
       IN  IF f.row = Nothing
           THEN /\ qop' = [qop EXCEPT ![c] =
                       [pc |-> "done", op |-> f.op, counter_id |-> f.counter_id,
                        raised |-> None, result |-> Nothing]]
                /\ UNCHANGED tickets
           ELSE /\ tickets' = MarkCalled(tickets, f.row[1], f.counter_id,
                                         f.operator_name, utcnow(tickets))
                /\ qop' = [qop EXCEPT ![c] =
                       [pc |-> "done", op |-> f.op, counter_id |-> f.counter_id,
                        raised |-> None, result |-> Some(tickets'[f.row[1]])]]
    /\ UNCHANGED <<solverVars, newton, report, resp, thr, shared>>

\* _get_ticket_by_id at the head of start_service, complete_service and
\* cancel_ticket
ReadTicket(c, op) ==
    /\ Free(c)
    /\ \E ticket_id \in 1..Len(tickets) :
          qop' = [qop EXCEPT ![c] =
              [pc |-> "read", op |-> op, ticket_id |-> ticket_id,
               ticket |-> tickets[ticket_id]]]
    /\ UNCHANGED tickets
    /\ UNCHANGED <<solverVars, newton, report, resp, thr, shared>>

\* the status check that follows: raise ValueError, or UPDATE the row and
\* read it again
CheckAndUpdate(c, op, allowed, updated) ==
    /\ qop[c].pc = "read"
    /\ qop[c].op = op
    /\ LET f == qop[c]
       IN  IF ~allowed
           THEN /\ qop' = [qop EXCEPT ![c] =
                       [pc |-> "done", op |-> op, ticket_id |-> f.ticket_id,
                        raised |-> "ValueError"]]
                /\ UNCHANGED tickets
           ELSE /\ tickets' = [tickets EXCEPT ![f.ticket_id] = updated]
                /\ qop' = [qop EXCEPT ![c] =
                       [pc |-> "done", op |-> op, ticket_id |-> f.ticket_id,
                        raised |-> None, result |-> updated]]
    /\ UNCHANGED <<solverVars, newton, report, resp, thr, shared>>

\* start_service accepts any ticket
StartableAlways(status) == TRUE

\* if ticket.status != TicketStatus.CALLED: raise
Startable(status) == status = "called"
\* if ticket.status != TicketStatus.IN_PROGRESS: raise
Completable(status) == status = "in_progress"
\* if ticket.status in [COMPLETED, CANCELLED]: raise
Cancellable(status) == status \notin {"completed", "cancelled"}

\* COALESCE(notes, '') || "\nCancelled"
CancelledNotes(notes) ==
    Some((IF notes = Nothing THEN <<>> ELSE notes[1]) \o <<"\nCancelled">>)

StartServiceRead(c) == ReadTicket(c, "start_service")

StartServiceUpdate(c) ==
    CheckAndUpdate(c, "start_service", Startable(qop[c].ticket.status),
        [tickets[qop[c].ticket_id] EXCEPT !.status = "in_progress",
                                          !.service_started_at = utcnow(tickets)])

CompleteServiceRead(c) == ReadTicket(c, "complete_service")

CompleteServiceUpdate(c) ==
    CheckAndUpdate(c, "complete_service", Completable(qop[c].ticket.status),
        [tickets[qop[c].ticket_id] EXCEPT !.status = "completed",
                                          !.completed_at = utcnow(tickets)])

CancelTicketRead(c) == ReadTicket(c, "cancel_ticket")

CancelTicketUpdate(c) ==
    CheckAndUpdate(c, "cancel_ticket", Cancellable(qop[c].ticket.status),
        [tickets[qop[c].ticket_id] EXCEPT !.status = "cancelled",
                                          !.notes = CancelledNotes(@)])

\* SELECT t.* FROM tickets t WHERE t.counter_id = ? AND t.status IN
\* ('called', 'in_progress') ORDER BY t.called_at DESC LIMIT 1
CurrentTicket(rows, counter_id) ==
    LET found == {t \in Rows(rows) :
                     t.counter_id = counter_id /\ t.status \in {"called", "in_progress"}}
    IN  IF found = {} THEN Nothing
        ELSE Some(CHOOSE t \in found : \A u \in found :
                      u = t \/ u.called_at < t.called_at
                            \/ (u.called_at = t.called_at /\ t.id < u.id))

(* get_counter_state, lines 347-367: the counter and its current ticket.   *)
CounterStateCurrent(c) ==
    /\ Free(c)
    /\ \E counter \in Counters :
          qop' = [qop EXCEPT ![c] =
              [pc |-> "current", op |-> "get_counter_state", counter_id |-> counter.id,
               current_ticket |-> CurrentTicket(tickets, counter.id)]]
    /\ UNCHANGED tickets
    /\ UNCHANGED <<solverVars, newton, report, resp, thr, shared>>

(* get_counter_state, lines 369-379: self.call_next_ticket(counter_id),    *)
(* with no operator, and the CounterState built from what it returned.     *)
CounterStateNext(c) ==
    /\ qop[c].pc = "current"
    /\ LET f == qop[c]
           counter == _get_counter(f.counter_id)
           row == SelectNextTicket(tickets, counter)
       IN  /\ tickets' = IF row = Nothing THEN tickets
                         ELSE MarkCalled(tickets, row[1], f.counter_id, None,
                                         utcnow(tickets))
           /\ qop' = [qop EXCEPT ![c] =
                  [pc |-> "done", op |-> f.op, counter_id |-> f.counter_id,
                   raised |-> None,
                   result |-> [counter_id |-> f.counter_id, status |-> counter.status,
                               current_ticket |-> f.current_ticket,
                               next_ticket_number |->
                                   IF row = Nothing THEN Nothing
                                   ELSE Some(tickets[row[1]].ticket_number),
                               operator_name |-> counter.current_operator]]]
    /\ UNCHANGED <<solverVars, newton, report, resp, thr, shared>>

\* every operation of the queue service, called by one client, one
\* operation after the other
NextQueue ==
    \E c \in {1} :
        \/ GenerateTicketNumber(c)
        \/ GenerateTicketInsert(c)
        \/ CallNextSelect(c)
        \/ CallNextUpdate(c)
        \/ StartServiceRead(c)
        \/ StartServiceUpdate(c)
        \/ CompleteServiceRead(c)
        \/ CompleteServiceUpdate(c)
        \/ CancelTicketRead(c)
        \/ CancelTicketUpdate(c)
        \/ CounterStateCurrent(c)
        \/ CounterStateNext(c)

SpecQueue == Init /\ [][NextQueue]_vars

\* generate_ticket and call_next_ticket called by the clients at the same
\* time: every statement on the database is one step
NextClients ==
    \E c \in Clients :
        \/ GenerateTicketNumber(c)
        \/ GenerateTicketInsert(c)
        \/ CallNextSelect(c)
        \/ CallNextUpdate(c)

SpecClients == Init /\ [][NextClients]_vars

(***************************************************************************)
(* The specifications of the entry paths.                                  *)
(***************************************************************************)
Next ==
    \/ Call
    \/ ExtractIvData
    \/ Validate
    \/ GlobalOptimize
    \/ LocalRefine
    \/ DeriveAndReturn
    \/ ReturnDirect
    \/ AnalyzeMeasurement
    \/ RespondStateless

Spec == Init /\ [][Next]_vars

\* two direct calls of solve_iv_curve, one after the other
NextPair ==
    \/ CallPair
    \/ Validate
    \/ GlobalOptimize
    \/ LocalRefine
    \/ DeriveAndReturn
    \/ ReturnDirect
    \/ Again

SpecPair == Init /\ [][NextPair]_vars

(***************************************************************************)
(* Properties.  In SpecPair, ref holds the request and the result of the   *)
(* first call while req and out are those of the second.                   *)
(***************************************************************************)
SameCurve(r, q) ==
    /\ r.V = q.V
    /\ r.I = q.I
    /\ r.cell_area_cm2 = q.cell_area_cm2

\* solve_iv_curve has returned (not raised) in both calls of the pair
BothSolved ==
    /\ ref.set
    /\ pc \in {"solved", "done"}
    /\ out.raised = None
    /\ ref.out.raised = None

\* the fitted quantities of an ExtractedParameters: photocurrent, saturation current,
\* ideality factor, Rs, Rsh
Fitted(p) == <<p.i_ph, p.i_0, p.n_ideality, p.r_s, p.r_sh>>

\* the figures of merit of an ExtractedParameters
Metrics(p) == <<p.j_sc, p.v_oc, p.ff, p.pce>>

\* a dict with its pairs inserted in the opposite order
Reversed(pairs) == [j \in 1..Len(pairs) |-> pairs[Len(pairs) + 1 - j]]

\* every key that occurs in the text a digest was computed from
HashedKeys(digest) ==
    {digest[2][j][1] : j \in 1..Len(digest[2])}
    \cup UNION {{digest[2][j][2][k][1] : k \in 1..Len(digest[2][j][2])} :
                j \in 1..Len(digest[2])}

FieldNames(fields) == {fields[j] : j \in 1..Len(fields)}

\* C1: two calls of solve_iv_curve with the same voltage array, current array, cell
\* area, temperature, mode, model type and measurement type return the same
\* ExtractedParameters, the same SolverConfig and the same fingerprint, although
\* the calls are made at different times.
Determinism ==
    (/\ ref.set
     /\ pc \in {"solved", "done"}
     /\ SameCurve(ref.req, req)
     /\ SameSettings(ref.req, req))
    => out = ref.out

DeterminismWitness ==
    /\ BothSolved
    /\ pc = "done"
    /\ SameCurve(ref.req, req)
    /\ SameSettings(ref.req, req)
    /\ req.now # ref.req.now
    /\ req.mode = "Exploration"
    /\ out.hash = ref.out.hash

\* C2: the fingerprint is a function of the contents of ExtractedParameters and
\* SolverConfig only: two solves with equal parameters and configuration have the
\* same fingerprint whatever their measurement_id and call time; building the two
\* dicts in another key order gives the same fingerprint; and the hashed text holds
\* no key other than the fields of the two models.
FingerprintOfContents ==
    (pc \in {"solved", "done"} /\ out.raised = None) =>
        /\ (/\ ref.set
            /\ ref.out.raised = None
            /\ ref.out.params = out.params
            /\ ref.out.config = out.config) => ref.out.hash = out.hash
        /\ compute_result_hash(Reversed(ModelDump(out.params, ExtractedParametersFields)),
                               Reversed(ModelDump(out.config, SolverConfigFields)))
           = out.hash
        /\ HashedKeys(out.hash) =
              {"parameters", "config"} \cup FieldNames(ExtractedParametersFields)
              \cup FieldNames(SolverConfigFields)

FingerprintWitness ==
    /\ BothSolved
    /\ pc = "done"
    /\ ref.out.params = out.params
    /\ ref.out.config = out.config
    /\ req.measurement_id # ref.req.measurement_id
    /\ req.now # ref.req.now
    /\ req.measurement_type = "dark"

\* C3: solve_iv_curve(V, I) and solve_iv_curve(V, -I), all else equal, return equal
\* fitted parameters (photocurrent, saturation current, ideality factor, Rs, Rsh).
SignConventionInvariance ==
    (/\ BothSolved
     /\ req.V = ref.req.V
     /\ req.cell_area_cm2 = ref.req.cell_area_cm2
     /\ SameSettings(ref.req, req)
     /\ req.I = NegArr(ref.req.I))
    => Fitted(out.params) = Fitted(ref.out.params)

\* C4: the reported residual_rms is the RMS of measured minus reconstructed current,
\* the reconstruction being the diode evaluator on the returned parameters with Rs
\* and Rsh divided by the cell area, at the measurement temperature.
ResidualSelfConsistency ==
    (pc = "solved" /\ out.raised = None) =>
        out.params.residual_rms =
            ResidualRms(Residuals(req.I, I_fitted(req.model_type, out.params, req.V,
                                                  req.temperature_c, req.cell_area_cm2)))

\* C5: two solves of the same raw voltage array, raw current array and cell area
\* return the same Jsc, Voc, fill factor and PCE, whatever the mode, model type,
\* measurement type, temperature and fitted parameters.
MetricsFromRawCurve ==
    (BothSolved /\ SameCurve(ref.req, req))
    => Metrics(out.params) = Metrics(ref.out.params)

MetricsWitness ==
    /\ BothSolved
    /\ pc = "done"
    /\ SameCurve(ref.req, req)
    /\ req.mode # ref.req.mode
    /\ req.model_type # ref.req.model_type
    /\ req.measurement_type # ref.req.measurement_type
    /\ req.temperature_c # ref.req.temperature_c
    /\ Fitted(out.params) # Fitted(ref.out.params)
    /\ out.params.j_sc > 0
    /\ out.params.ff > 0

\* C6, as stated: when the measured current never changes sign between consecutive
\* samples, the returned Voc is the last voltage sample V[-1].
VocFallbackLastSample ==
    (pc = "solved" /\ out.raised = None /\ sign_changes(req.I) = {})
    => out.params.v_oc = req.V[Len(req.V)]

\* C6, amended: when np.sign of the measured current is the same at every two
\* consecutive samples, the solve that reached the Voc computation returns, and the
\* returned Voc is the absolute value of the last voltage sample.
VocFallbackAbsLastSample ==
    (/\ pc = "solved"
     /\ lm.called
     /\ lm.result.raised = None
     /\ sign_changes(req.I) = {})
    => (out.raised = None /\ out.params.v_oc = Abs(req.V[Len(req.V)]))

VocFallbackWitness ==
    /\ pc = "solved"
    /\ out.raised = None
    /\ sign_changes(req.I) = {}
    /\ req.V[Len(req.V)] < 0
    /\ out.params.v_oc = -req.V[Len(req.V)]

\* the Analysis analyze_measurement builds when solve_iv_curve raised e
InvalidWith(analysis, e) ==
    /\ analysis.status = "INVALID"
    /\ analysis.parameters = Nothing
    /\ analysis.result_hash = Nothing
    /\ analysis.error_message = e

\* analyze_measurement was called and has ended, solve_iv_curve having raised
SolverFailed ==
    /\ pc = "done"
    /\ req.path # "direct"
    /\ out.raised \notin {None, "pending"}

\* C7, as stated: when solve_iv_curve raises, analyze_measurement returns an INVALID
\* Analysis with no parameters, no result hash and the text of the exception, and no
\* call of analyze_measurement ends by raising.
AnalysisNeverRaises ==
    (pc = "done" /\ req.path # "direct" /\ out.raised # "pending") =>
        /\ ret.raised = None
        /\ out.raised # None => InvalidWith(ret.analysis[1], out.raised)

\* C7, amended: when solve_iv_curve raises, analyze_measurement never ends with
\* that exception; it builds an INVALID Analysis with no parameters, no result hash
\* and the text of the exception, and returns it when create_analysis has stored it;
\* the only exception that leaves analyze_measurement is one of create_analysis.
SolverFailureContained ==
    SolverFailed =>
        /\ ret.raised # out.raised
        /\ ret.raised \in {None, "sqlite3.Error"}
        /\ ret.raised = None =>
              /\ InvalidWith(ret.analysis[1], out.raised)
              /\ db # <<>>
              /\ db[Len(db)] = ret.analysis[1]

SolverFailureWitness ==
    /\ SolverFailed
    /\ req.path = "stateless"
    /\ out.raised = "Current contains NaN or Inf"
    /\ ret.raised = None
    /\ ret.analysis[1].error_message = "Current contains NaN or Inf"

\* the array holds a NaN or an infinite sample
HasNonFinite(arr) == \E k \in 1..Len(arr) : arr[k] \in {NaN, Inf}

\* the error a request with a non-finite sample ends with, by entry path
Rejected ==
    CASE req.path = "direct" ->
            ret.raised \in {"Voltage contains NaN or Inf", "Current contains NaN or Inf"}
      [] req.path = "persisted" -> ret.raised = "Data extraction failed"
      [] OTHER ->
            /\ out.raised \in {"Voltage contains NaN or Inf", "Current contains NaN or Inf"}
            /\ ret.raised = None => ret.analysis[1].status = "INVALID"

\* C8: a voltage or current array with a NaN or an infinite value is rejected with an
\* error before either optimizer is invoked, on the persisted, the stateless and the
\* direct path; the arrays an optimizer is given are finite.
NonFiniteRejected ==
    /\ loc.set => ~(HasNonFinite(req.V) \/ HasNonFinite(req.I))
    /\ de.called => ~(HasNonFinite(de.V) \/ HasNonFinite(de.I))
    /\ lm.called => ~(HasNonFinite(lm.V) \/ HasNonFinite(lm.I))
    /\ (pc = "done" /\ (HasNonFinite(req.V) \/ HasNonFinite(req.I))) =>
          (~de.called /\ ~lm.called /\ Rejected)

NonFiniteWitness ==
    /\ pc = "done"
    /\ req.path = "stateless"
    /\ \E k \in 1..Len(req.V) : req.V[k] = Inf
    /\ ~de.called
    /\ out.raised = "Voltage contains NaN or Inf"

\* C9: the local refiner is given, per parameter, the lower and the upper bound the
\* global optimizer was given for the case, it starts from the global optimizer's
\* result, and its final vector lies inside that box.
RefinerBoundsMatch ==
    lm.called =>
        /\ de.called
        /\ de.bounds = CaseBounds(FitCase(req.measurement_type, req.model_type))
        /\ Len(lm.lb) = Len(de.bounds)
        /\ Len(lm.ub) = Len(de.bounds)
        /\ \A j \in 1..Len(de.bounds) :
              lm.lb[j] = de.bounds[j][1] /\ lm.ub[j] = de.bounds[j][2]
        /\ lm.x0 = de.result.x
        /\ lm.result.raised = None
        /\ \A j \in 1..Len(de.bounds) :
              de.bounds[j][1] <= lm.result.x[j] /\ lm.result.x[j] <= de.bounds[j][2]

RefinerBoundsWitness ==
    /\ lm.called
    /\ lm.result.raised = None
    /\ lm.result.x # lm.x0
    /\ req.measurement_type = "dark"
    /\ Len(lm.lb) = Len(DarkLogBounds)

\* C10: least_squares is invoked with xtol = ftol = gtol = 1e-10 and max_nfev = 10000,
\* the values of LEVENBERG_MARQUARDT_CONFIG, in every mode and for every model.
LockedRefinerSettings ==
    lm.called =>
        \A k \in {"xtol", "ftol", "gtol", "max_nfev"} :
            /\ k \in DOMAIN lm.kwargs
            /\ lm.result.opts[k] = LEVENBERG_MARQUARDT_CONFIG[k]

\* C11: the SolverConfig returned by solve_iv_curve records the settings the two
\* optimizers ran with in that call: model type, seed, strategy, mutation,
\* recombination, population size and the refiner's tolerances, in either mode.
ConfigSnapshotMatchesRun ==
    (pc = "solved" /\ out.raised = None) =>
        /\ out.config.model_type = req.model_type
        /\ out.config.solver_seed = de.config.seed
        /\ out.config.de_strategy = de.config.strategy
        /\ out.config.de_mutation = de.config.mutation
        /\ out.config.de_recombination = de.config.recombination
        /\ out.config.de_popsize = de.config.popsize
        /\ out.config.lm_xtol = lm.result.opts.xtol
        /\ out.config.lm_ftol = lm.result.opts.ftol
        /\ out.config.lm_gtol = lm.result.opts.gtol

\* C12: for every voltage array and parameter set both evaluators make at most
\* NEWTON_MAX_ITER passes, leave the loop as soon as the largest change is below
\* NEWTON_TOL, raise nothing, and return a current array of the length of V.
NewtonTerminates ==
    /\ newton.pc # "idle" => newton.iterations <= NEWTON_MAX_ITER
    /\ newton.pc # "raised"
    /\ newton.pc = "returned" =>
          /\ Len(newton.I) = Len(newton.V)
          /\ newton.broke \/ newton.iterations = NEWTON_MAX_ITER

\* the cap is reached without convergence and the estimate is returned
NewtonCapReached ==
    newton.pc = "returned" /\ ~newton.broke /\ newton.iterations = NEWTON_MAX_ITER

\* C13: for every curve and positive cell area the returned fill factor equals
\* Pmax / (Voc * Isc), zero if either factor is zero, and lies between 0 and 1
\* (0 and 1000 per mille), also when a sample of the power region carries more
\* current than the sample nearest V = 0.
FillFactorInUnitRange ==
    (pc = "solved" /\ out.raised = None /\ req.cell_area_cm2 > 0) =>
        LET p == out.params
            i_sc == Quot(p.j_sc * req.cell_area_cm2, 1000)
        IN  /\ p.ff >= 0
            /\ p.ff <= 1000
            /\ p.ff = IF p.v_oc > 0 /\ i_sc > 0
                      THEN Quot(1000 * Pmpp(req.V, req.I, p.v_oc), p.v_oc * i_sc)
                      ELSE 0

\* the samples with 0 <= V <= 1.05 * v_oc whose current has the sign sgn
PowerRegion(V, I, v_oc, sgn) ==
    {k \in 1..Len(V) : V[k] >= 0 /\ 100 * V[k] <= 105 * v_oc /\ Sign(I[k]) = sgn}

\* the largest |V * I| over the samples S
LargestPower(V, I, S) ==
    CHOOSE p \in {Abs(V[k] * I[k]) : k \in S} : \A k \in S : Abs(V[k] * I[k]) <= p

\* the largest |V * I| over the region of sign sgn, or over all samples when the
\* region is empty
RestrictedPower(V, I, v_oc, sgn) ==
    IF PowerRegion(V, I, v_oc, sgn) # {}
    THEN LargestPower(V, I, PowerRegion(V, I, v_oc, sgn))
    ELSE LargestPower(V, I, 1..Len(V))

\* the returned Pmax: pce = (p_mpp / (100 * area / 1000)) * 100
ReturnedPmax == Quot(out.params.pce * req.cell_area_cm2, 1000)

DarkCounterparts(p) == <<p.n_dark, p.i_0_dark, p.r_s_dark, p.r_sh_dark>>

\* C20: a dark fit has exactly 4 free parameters (log10 of the saturation current,
\* n, Rs, Rsh); the returned photocurrent is 0, the returned saturation current is
\* 10 to the fitted log10 value, and n_dark, i_0_dark, r_s_dark, r_sh_dark equal
\* n_ideality, i_0, r_s, r_sh; a non-dark result has none of the four.
DarkFitParameters ==
    (pc = "solved" /\ out.raised = None) =>
        IF req.measurement_type = "dark"
        THEN /\ Len(loc.bounds) = 4
             /\ Len(de.result.x) = 4
             /\ Len(lm.result.x) = 4
             /\ out.params.i_ph = 0
             /\ out.params.i_0 = 10^(lm.result.x[1])
             /\ out.params.n_ideality = lm.result.x[2]
             /\ out.params.r_s = lm.result.x[3] * req.cell_area_cm2
             /\ out.params.r_sh = lm.result.x[4] * req.cell_area_cm2
             /\ DarkCounterparts(out.params)
                  = <<out.params.n_ideality, out.params.i_0, out.params.r_s,
                      out.params.r_sh>>
        ELSE DarkCounterparts(out.params) = <<NoneF, NoneF, NoneF, NoneF>>

\* a dark fit requested with the two-diode model, on a cell of area 2
DarkFitWitness ==
    /\ pc = "solved"
    /\ out.raised = None
    /\ req.measurement_type = "dark"
    /\ req.model_type = "TwoDiode"
    /\ req.cell_area_cm2 = 2
    /\ Len(lm.result.x) = 4
    /\ out.params.i_0_dark = 10^(lm.result.x[1])
    /\ out.params.r_sh_dark = 2 * lm.result.x[4]

\* the severity paired with a pattern
SeverityOf(pattern) ==
    CASE pattern = "s_shaped" -> "CRITICAL"
      [] pattern = "systematic_curvature" -> "HIGH"
      [] pattern = "linear_trend" -> "MEDIUM"
      [] pattern = "random" -> "LOW"

\* the pattern the prioritised tests give, `steep` being the outcome of the third
PatternBy(r, steep) ==
    IF 100 * r.cubic_strength > 15 * r.rms THEN "s_shaped"
    ELSE IF 10 * r.quadratic_strength > r.rms THEN "systematic_curvature"
    ELSE IF steep THEN "linear_trend"
    ELSE "random"

\* the ranges of the voltages and of the residuals analyze_residuals was called with
VoltageRange == Ptp(report.args.voltage)
ResidualRange == Ptp(ResidualsOf(report.args.measured, report.args.fitted))

\* C15, as stated: the pattern is s_shaped if cubic strength > 0.15 * RMS, else
\* systematic_curvature if quadratic strength > 0.1 * RMS, else linear_trend if
\* |slope| > 0.05 * residual-range / voltage-range, else random, and the severity
\* is the one paired with the pattern.
ClassificationByRangeRatio ==
    report.residuals # Nothing =>
        LET r == report.residuals[1]
        IN  /\ r.pattern = PatternBy(r, Abs(r.slope) * VoltageRange > 5 * ResidualRange)
            /\ r.warning = SeverityOf(r.pattern)

\* C15, amended: as stated, with the third test |slope| > 0.05 when the voltage
\* range is zero.
ClassificationWithZeroRange ==
    report.residuals # Nothing =>
        LET r == report.residuals[1]
        IN  /\ r.pattern = PatternBy(r, IF VoltageRange > 0
                                        THEN Abs(r.slope) * VoltageRange > 5 * ResidualRange
                                        ELSE Abs(r.slope) > 5)
            /\ r.warning = SeverityOf(r.pattern)

\* several equal voltages, and a slope above 0.05 classified as a linear trend
ZeroRangeWitness ==
    /\ report.residuals # Nothing
    /\ Len(report.args.voltage) > 1
    /\ VoltageRange = 0
    /\ ResidualRange > 0
    /\ report.residuals[1].pattern = "linear_trend"
    /\ report.residuals[1].warning = "MEDIUM"

\* the hits recorded for a parameter
HitsOf(param) ==
    LET hits == report.boundary_stress[1].boundary_hits
    IN  {j \in 1..Len(hits) : hits[j].parameter = param}

\* C16: for each monitored parameter with a value and a bound pair,
\* analyze_boundary_stress records a hit exactly when the value is within 10% of
\* the lower bound (value <= 1.1 * lower) or of the upper bound
\* (value >= 0.9 * upper), with severity ERROR when the value is at or beyond that
\* bound and WARNING when it is strictly inside; a parameter farther from both
\* bounds has no hit, and n_hits is the number of hits.
BoundaryStressHits ==
    report.boundary_stress # Nothing =>
        LET stress == report.boundary_stress[1]
            hits == stress.boundary_hits
            parameters == report.parameters[1]
        IN  /\ stress.n_hits = Len(hits)
            /\ \A j \in 1..Len(hits) :
                  \E b \in 1..Len(DiagnosticBounds) :
                      hits[j].parameter = DiagnosticBounds[b][1]
            /\ \A b \in 1..Len(DiagnosticBounds) :
                  LET param == DiagnosticBounds[b][1]
                      lower == DiagnosticBounds[b][2]
                      upper == DiagnosticBounds[b][3]
                      value == parameters[param]
                      near_lower == value # NoneF /\ 10 * value <= 11 * lower
                      near_upper == value # NoneF /\ 10 * value >= 9 * upper
                  IN  /\ Cardinality(HitsOf(param))
                            = IF near_lower \/ near_upper THEN 1 ELSE 0
                      /\ \A j \in HitsOf(param) :
                            /\ hits[j].value = value
                            /\ hits[j].direction = IF near_lower THEN "lower" ELSE "upper"
                            /\ hits[j].bound = IF near_lower THEN lower ELSE upper
                            /\ hits[j].severity =
                                  IF (near_lower /\ value <= lower)
                                     \/ (~near_lower /\ value >= upper)
                                  THEN "ERROR" ELSE "WARNING"

\* a value inside the margin of its lower bound, one at its upper bound, and one
\* far from both bounds: two hits, a WARNING and an ERROR
BoundaryStressWitness ==
    /\ report.boundary_stress # Nothing
    /\ report.parameters[1].n = 88
    /\ report.parameters[1].Rs = 50
    /\ report.parameters[1].Rsh = 100000000
    /\ report.boundary_stress[1].n_hits = 2
    /\ report.boundary_stress[1].boundary_hits[1].severity = "WARNING"
    /\ report.boundary_stress[1].boundary_hits[2].severity = "ERROR"

\* the components of the risk that are present, by the claim's definition
RiskComponents ==
    (IF report.residuals # Nothing
     THEN <<CASE report.residuals[1].warning = "LOW" -> 10
              [] report.residuals[1].warning = "MEDIUM" -> 40
              [] report.residuals[1].warning = "HIGH" -> 70
              [] report.residuals[1].warning = "CRITICAL" -> 90>>
     ELSE <<>>)
    \o (IF report.noise_stability # Nothing
        THEN <<100 - report.noise_stability[1].stability_score>> ELSE <<>>)
    \o (IF report.boundary_stress # Nothing
        THEN <<IF 20 * Len(report.boundary_stress[1].boundary_hits) > 100 THEN 100
               ELSE 20 * Len(report.boundary_stress[1].boundary_hits)>>
        ELSE <<>>)

\* C17: generate_report sets overall_risk_score (here in sixths) to the mean of the
\* components that are present and to 0 when none is, sets validation_passed
\* exactly when the score is below 50, and the score lies between 0 and 100.
RiskAggregation ==
    report.pc = "generated" =>
        LET r == report.returned[1]
        IN  /\ r.overall_risk_score * Len(RiskComponents) = 6 * SumSeq(RiskComponents)
            /\ RiskComponents = <<>> => r.overall_risk_score = 0
            /\ r.validation_passed <=> r.overall_risk_score < 6 * 50
            /\ r.overall_risk_score >= 0
            /\ r.overall_risk_score <= 6 * 100

\* C18: in the stateless analyze operation, when the analysis is VALID and
\* reconstructing the fitted curve or building the report raises, the operation
\* still completes successfully (HTTP 200) and returns the analysis status,
\* fingerprint and parameters with the diagnostics field null.
DiagnosticFailureSwallowed ==
    (/\ resp.sent
     /\ req.path = "stateless"
     /\ ret.raised = None
     /\ ret.analysis[1].status = "VALID"
     /\ report.pc = "raised")
    => /\ resp.status_code = 200
       /\ resp.body.status = "VALID"
       /\ resp.body.result_hash = ret.analysis[1].result_hash
       /\ resp.body.parameters = ret.analysis[1].parameters
       /\ resp.body.diagnostics = Nothing

\* what a call with arguments r returns or raises when it runs alone from the
\* initial state
SoloResult(r) ==
    DeriveFrame(LocalFrame(GlobalFrame(ValidateFrame(NewFrame(r, {}), ModuleGlobals),
                                       InitShared.entropy))).out

\* C19: solve_iv_curve writes no shared state (the configuration dictionaries and
\* bound lists are as they were after any call), and under every interleaving of
\* concurrent calls each call returns what it returns when it runs alone.
NoSharedMutableState ==
    /\ shared.globals = ModuleGlobals
    /\ \A t \in Threads :
          thr[t].pc = "returned" => thr[t].out = SoloResult(thr[t].req)

\* two calls with different arguments in flight at once: thread 2 was called
\* while the call of thread 1 was running, and both have returned a result
InterleavedWitness ==
    /\ thr[1].pc = "returned"
    /\ thr[2].pc = "returned"
    /\ thr[2].others = {1}
    /\ thr[1].out.raised = None
    /\ thr[2].out.raised = None
    /\ thr[1].req # thr[2].req
    /\ thr[1].out.hash # thr[2].out.hash
    /\ shared.entropy = 2

\* the fields of ExtractedParameters that hold neither the photocurrent, the first
\* saturation current, an ideality factor nor a resistance of the light fit
RemainingFields ==
    FieldNames(ExtractedParametersFields)
    \ {"i_ph", "i_0", "n_ideality", "n2_ideality", "r_s", "r_sh"}

\* C21: after a two-diode solve the returned ExtractedParameters carries the seven
\* fitted parameters: photocurrent, first saturation current, n1, n2, Rs and Rsh (the
\* resistances times the cell area) in their fields and the second saturation
\* current in a field of its own, and the curve reconstructed from the result is the
\* two-diode evaluator on the seven fitted values at the measurement temperature.
TwoDiodeParametersCarried ==
    (pc = "solved" /\ out.raised = None /\ loc.case = "two") =>
        LET p == out.params
            x == lm.result.x
        IN  /\ Len(x) = 7
            /\ <<p.i_ph, p.i_0, p.n_ideality, p.n2_ideality>> = <<x[1], x[2], x[3], x[5]>>
            /\ p.r_s = x[6] * req.cell_area_cm2
            /\ p.r_sh = x[7] * req.cell_area_cm2
            /\ \E f \in RemainingFields : p[f] = x[4]
            /\ I_fitted(req.model_type, p, req.V, req.temperature_c, req.cell_area_cm2)
               = two_diode_equation(req.V, x[1], x[2], x[3], x[4], x[5], x[6], x[7],
                                    req.temperature_c + KelvinOffset)

\* the first pair of consecutive samples whose currents differ in sign
FirstCrossing == CHOOSE k \in sign_changes(req.I) : \A j \in sign_changes(req.I) : k <= j

\* the zero of the line through the two samples of the first crossing
Interpolated ==
    req.V[FirstCrossing]
    - Quot(req.I[FirstCrossing] * (req.V[FirstCrossing + 1] - req.V[FirstCrossing]),
           req.I[FirstCrossing + 1] - req.I[FirstCrossing])

Between(v, a, b) == (a <= v /\ v <= b) \/ (b <= v /\ v <= a)

\* a solve that reached the Voc computation on a curve with a sign change
CrossingSolved ==
    /\ pc = "solved"
    /\ lm.called
    /\ lm.result.raised = None
    /\ sign_changes(req.I) # {}

\* C22, as stated: when the current changes sign between consecutive samples, Voc is
\* the linear interpolation of the zero crossing at the first such pair, it lies
\* between the two voltages of the pair inclusive, and nothing divides by zero.
VocIsInterpolatedCrossing ==
    CrossingSolved =>
        /\ out.raised = None
        /\ req.I[FirstCrossing + 1] # req.I[FirstCrossing]
        /\ out.params.v_oc = Interpolated
        /\ Between(out.params.v_oc, req.V[FirstCrossing], req.V[FirstCrossing + 1])

\* C22, amended: Voc is the absolute value of the linear interpolation at the first
\* pair; the interpolated voltage lies between the two voltages of the pair
\* inclusive, and the two currents of the pair differ, so nothing divides by zero.
VocIsAbsInterpolatedCrossing ==
    CrossingSolved =>
        /\ out.raised = None
        /\ req.I[FirstCrossing + 1] # req.I[FirstCrossing]
        /\ out.params.v_oc = Abs(Interpolated)
        /\ Between(Interpolated, req.V[FirstCrossing], req.V[FirstCrossing + 1])

\* the current changes sign between two samples in reverse bias, and the returned
\* Voc lies outside the pair
VocCrossingWitness ==
    /\ CrossingSolved
    /\ out.raised = None
    /\ req.V[FirstCrossing + 1] < 0
    /\ Interpolated < 0
    /\ out.params.v_oc = -Interpolated
    /\ ~Between(out.params.v_oc, req.V[FirstCrossing], req.V[FirstCrossing + 1])

\* (i - s * im) * scale, element-wise
SignedResiduals(i, s, im, scale) ==
    Array(Len(i), [k \in 1..Len(i) |-> (i[k] - s * im[k]) * scale])

\* the residual vector of parameter vector p in the fit context (T_k, sm): the
\* evaluator of the case at temperature T_k, the model current multiplied by sm
ContextResiduals(case, T_k, sm, p, v, i) ==
    CASE case = "dark" ->
            SignedResiduals(i, sm, one_diode_equation(v, 0, 10^p[1], p[2], p[3], p[4], T_k),
                            DARK_RESIDUAL_SCALE)
      [] case = "one" ->
            SignedResiduals(i, sm, one_diode_equation(v, p[1], p[2], p[3], p[4], p[5], T_k),
                            1)
      [] OTHER ->
            SignedResiduals(i, sm, two_diode_equation(v, p[1], p[2], p[3], p[4], p[5], p[6],
                                                      p[7], T_k), 1)

\* C23: in both optimization stages and in every case the objective is evaluated in
\* the fit context of the call: the cost the global stage reports and the residual
\* vector the local stage reports are those of the diode evaluator at
\* temperature_c + 273.15 kelvin with the model current multiplied by the recorded
\* sign multiplier.
FitContextThreaded ==
    /\ de.called =>
          /\ loc.T_k = req.temperature_c + KelvinOffset
          /\ de.result.fun = SumSq(ContextResiduals(loc.case, loc.T_k, loc.sm,
                                                    de.result.x, de.V, de.I))
    /\ (lm.called /\ lm.result.raised = None) =>
          lm.result.fun = ContextResiduals(loc.case, loc.T_k, loc.sm, lm.result.x,
                                           lm.V, lm.I)

\* C23 restricted to the dark case, whose residual function receives T_k and sm
FitContextThreadedDark ==
    loc.set /\ loc.case = "dark" => FitContextThreaded

\* the Analysis objects analyze_measurement has produced: the one it returned and
\* the rows it stored
ProducedAnalyses ==
    {db[k] : k \in 1..Len(db)}
    \cup (IF pc = "done" /\ req.path # "direct" /\ ret.raised = None
          THEN {ret.analysis[1]} ELSE {})

\* C24: every Analysis produced by analyze_measurement has status VALID or INVALID,
\* never PENDING; it is VALID exactly when it has parameters, a result hash and no
\* error message; and it is VALID when solve_iv_curve returned, also when an
\* optimizer finished without reporting success.
AnalysisStatusConsistent ==
    /\ \A a \in ProducedAnalyses :
          /\ a.status \in {"VALID", "INVALID"}
          /\ a.status = "VALID" <=>
                (a.parameters # Nothing /\ a.result_hash # Nothing
                 /\ a.error_message = None)
          /\ a.status = "INVALID" <=>
                (a.parameters = Nothing /\ a.result_hash = Nothing
                 /\ a.error_message # None)
    /\ (pc = "done" /\ req.path # "direct" /\ ret.raised = None /\ out.raised = None)
          => ret.analysis[1].status = "VALID"

\* a VALID analysis of a solve whose two optimizers both finished without success
UnconvergedValidWitness ==
    /\ pc = "done"
    /\ req.path = "persisted"
    /\ ret.raised = None
    /\ out.raised = None
    /\ ~de.result.success
    /\ ~lm.result.success
    /\ ret.analysis[1].status = "VALID"
    /\ ret.analysis[1].parameters # Nothing

\* the Pmax of an ExtractedParameters: pce = (p_mpp / (100 * area / 1000)) * 100
PmaxOf(p, area) == Quot(p.pce * area, 1000)

\* C25: the derived metrics do not depend on the polarity of the current: a solve of
\* (V, -I) returns the Jsc, Voc, Pmax, fill factor and PCE of the solve of (V, I) on
\* the same area, also when the current at the sample nearest V = 0 is zero.
PolarityIndependentMetrics ==
    (/\ BothSolved
     /\ req.V = ref.req.V
     /\ req.cell_area_cm2 = ref.req.cell_area_cm2
     /\ req.I = NegArr(ref.req.I))
    => /\ out.params.j_sc = ref.out.params.j_sc
       /\ out.params.v_oc = ref.out.params.v_oc
       /\ PmaxOf(out.params, req.cell_area_cm2)
            = PmaxOf(ref.out.params, ref.req.cell_area_cm2)
       /\ out.params.ff = ref.out.params.ff
       /\ out.params.pce = ref.out.params.pce

\* C25 for the curves whose current at the sample nearest V = 0 is not zero
PolarityIndependentNonZero ==
    (BothSolved /\ req.I[ArgMinAbs(req.V)] # 0) => PolarityIndependentMetrics

\* the operation whose step changes the frame of client c
Stepped(c, op) == qop'[c] # qop[c] /\ qop'[c].op = op

\* the moves of a ticket's status, each with the operation that makes it
LifecycleMove(from, to, c) ==
    \/ from = "waiting" /\ to = "called" /\ Stepped(c, "call_next_ticket")
    \/ from = "called" /\ to = "in_progress" /\ Stepped(c, "start_service")
    \/ from = "in_progress" /\ to = "completed" /\ Stepped(c, "complete_service")
    \/ from \notin {"completed", "cancelled"} /\ to = "cancelled"
       /\ Stepped(c, "cancel_ticket")

\* the operation is called on a ticket whose status it does not accept
WrongStatus(op, status) ==
    \/ op = "start_service" /\ status # "called"
    \/ op = "complete_service" /\ status # "in_progress"
    \/ op = "cancel_ticket" /\ status \in {"completed", "cancelled"}

\* C26: a ticket's status only moves waiting -> called (call_next_ticket) ->
\* in_progress (start_service) -> completed (complete_service), or to
\* cancelled (cancel_ticket) from a status other than completed and cancelled;
\* completed and cancelled are never left; start_service, complete_service and
\* cancel_ticket on a ticket in another status raise and leave every ticket
\* as it was.
TicketLifecycle ==
    [][/\ Len(tickets') >= Len(tickets)
       /\ \A k \in 1..Len(tickets) :
             /\ tickets'[k].status # tickets[k].status
                   => \E c \in Clients :
                          LifecycleMove(tickets[k].status, tickets'[k].status, c)
             /\ tickets[k].status \in {"completed", "cancelled"}
                   => tickets'[k].status = tickets[k].status
       /\ \A c \in Clients :
             (qop[c].pc = "read" /\ qop'[c].pc = "done"
              /\ WrongStatus(qop[c].op, tickets[qop[c].ticket_id].status))
                => qop'[c].raised = "ValueError" /\ tickets' = tickets]_vars

\* a ticket was cancelled while it waited, and a later operation on it raised
LifecycleWitness ==
    /\ qop[1].pc = "done"
    /\ qop[1].op \in {"start_service", "complete_service", "cancel_ticket"}
    /\ qop[1].raised = "ValueError"
    /\ tickets[qop[1].ticket_id].status = "cancelled"
    /\ tickets[qop[1].ticket_id].notes = Some(<<"\nCancelled">>)

\* how many of the first k rows are tickets of the service of row k
IssuedBefore(k) ==
    Cardinality({j \in 1..k : tickets[j].service_id = tickets[k].service_id})

\* C27: the tickets of one service are numbered prefix+001, prefix+002, ...
\* in the order they were issued, no two tickets have the same number, and no
\* generate_ticket call fails: with calls at the same time, and with a
\* service whose prefix begins with the prefix of another.
SequentialNumbering ==
    /\ \A c \in Clients :
          (qop[c].pc = "done" /\ qop[c].op = "generate_ticket")
             => qop[c].raised = None
    /\ \A k \in 1..Len(tickets) :
          tickets[k].ticket_number =
             _get_service(tickets[k].service_id).prefix \o Format03d(IssuedBefore(k))
    /\ \A j, k \in 1..Len(tickets) :
          j # k => tickets[j].ticket_number # tickets[k].ticket_number

\* two generate_ticket calls chose the same number, and the INSERT of the
\* second was rejected
ConcurrentIssueFails ==
    \E c \in Clients :
        /\ qop[c].pc = "done" /\ qop[c].op = "generate_ticket"
        /\ qop[c].raised = "IntegrityError"

\* the priorities, the most urgent first
Urgency == <<"urgent", "high", "normal", "low">>
UrgencyOf(priority) == CHOOSE k \in 1..Len(Urgency) : Urgency[k] = priority

\* the waiting tickets of the services the counter offers
WaitingFor(counter_id) ==
    {t \in Rows(tickets) :
        /\ t.status = "waiting"
        /\ \E k \in 1..Len(_get_counter(counter_id).services_offered) :
              _get_counter(counter_id).services_offered[k] = t.service_id}

\* t is served before u
ServedBefore(t, u) ==
    \/ UrgencyOf(t.priority) < UrgencyOf(u.priority)
    \/ UrgencyOf(t.priority) = UrgencyOf(u.priority) /\ t.created_at < u.created_at

\* the ids of the tickets that are first in line for the counter
FirstInLine(counter_id) ==
    {t.id : t \in {u \in WaitingFor(counter_id) :
                      \A w \in WaitingFor(counter_id) : ~ServedBefore(w, u)}}

NothingCalledWhileWaiting ==
    /\ qop[1].pc = "done" /\ qop[1].op = "call_next_ticket"
    /\ qop[1].result = Nothing
    /\ WaitingFor(qop[1].counter_id) # {}

\* client c has returned from call_next_ticket with a ticket
Returned(c) ==
    /\ qop[c].pc = "done" /\ qop[c].op = "call_next_ticket"
    /\ qop[c].result # Nothing

WaitingIds(rows) == {t.id : t \in {u \in Rows(rows) : u.status = "waiting"}}

=============================================================================
